---- MODULE Spec2Model ----
(***************************************************************************)
(* A model of backend/ai_service.py (AIService) of ClothingApp and of the  *)
(* callers in backend/main.py, as state machines:                          *)
(*   Spec         one invocation of AIService.virtual_try_on               *)
(*   SpecGradio   concurrent invocations of _try_on_gradio and their       *)
(*                temporary files                                          *)
(*   SpecAnalyze  one upload and its call of analyze_image_style           *)
(*   SpecRatio    _ensure_aspect_ratio applied to any image and ratio      *)
(* Each specification moves its own variables and keeps the others at      *)
(* their idle values.                                                      *)
(* Images are modelled by what the code reads of them: where the bytes     *)
(* come from, whether PIL can decode them, their width and height, and     *)
(* whether the disclaimer has been drawn on them.                          *)
(***************************************************************************)
EXTENDS Integers, Sequences, FiniteSets, TLC

VARIABLES
    \* ---- AIService.virtual_try_on, one invocation ----
    pc,                 \* the statement the invocation is at
    person,             \* person_img_bytes
    cloth,              \* the file at cloth_img_path: "missing", "unusable", "ok"
    replicate_token,    \* self.replicate_token is set
    method,             \* the method argument
    final_result_bytes, \* the local of that name
    hist,               \* the stages entered so far, in order
    raised,             \* the stages in which an exception was raised
    produced,           \* the stages that yielded an image
    outcome,            \* "running", "returned", "raised"
    exc,                \* the message of the exception that left virtual_try_on
    retval,             \* the value returned
    wm_in,              \* the argument of the _add_watermark call
    wm_env,             \* what the environment did inside that call
    \* ---- concurrent invocations of _try_on_gradio ----
    now,                \* int(time.time())
    tmpdir,             \* the files of tempfile.gettempdir(): path -> content
    gpc,                \* per invocation: the statement it is at
    proc_cloth_path,    \* per invocation: the local of that name
    person_path,        \* per invocation: the local of that name
    orig_pil,           \* per invocation: the image read back from person_path
    padded_person_path, \* per invocation: the local of that name
    sent,               \* per invocation: the files client.predict uploaded
    \* ---- AIService.analyze_image_style, called by upload_clothing ----
    apc,                \* the statement the call is at
    gemini_keys,        \* self.gemini_keys
    genai_module,       \* google.generativeai can be imported
    rotated_keys,       \* the local of that name
    key_idx,            \* the position of the outer loop in rotated_keys
    model_idx,          \* the position of the inner loop in gemini_models
    configured_key,     \* the key last given to genai.configure
    attempts,           \* the (key, model) pairs tried so far, in order
    errors_len,         \* len(errors)
    last_error,         \* errors[-1]
    analysis_result,    \* the value analyze_image_style returned
    parsed,             \* the last json.loads value and the attempt that gave it
    upload_status,      \* what upload_clothing made of it
    \* ---- AIService._ensure_aspect_ratio ----
    target_ratio,       \* the argument, as <<p, q>> for p / q
    ar_calls,           \* how many times the function was applied
    ar_prev,            \* the image given to the last call
    ar_img,             \* the image: the input, then the last call's result
    ar_offset,          \* where the last call pasted the original: <<x, y>>
    \* ---- trim, the border trimmer of AIService._try_on_gradio ----
    trim_im,            \* the garment image given to trim
    trim_out,           \* what trim returned, NoBitmap before the call
    \* ---- AIService._remove_background_simple ----
    rb_calls,           \* how many times the keyer was applied
    rb_prev,            \* the image given to the last call
    rb_img,             \* the image: the input, then the last call's result
    \* ---- the garment category of AIService._try_on_gradio ----
    cloth_name,         \* the display name argument
    category,           \* the category argument
    ootd_category,      \* the category sent to the model, "" before it is settled
    replicate_category, \* the category sent to Replicate, "" before, "raised" for an exception
    \* ---- the garment standardisation of AIService._try_on_gradio ----
    person_size,        \* <<width, height>> of the person image
    c_size,             \* <<c_w, c_h>>, the size of the trimmed garment
    g_category,         \* ootd_category
    height_ratio,       \* the height_ratio argument
    g_undershoot,       \* whether float products of whole value fall below it
    c_img_resized,      \* the resized garment and its place, NoSize before
    \* ---- ClothesManager in local-JSON mode ----
    given_file,         \* the file at the path given to ClothesManager
    fallback_file,      \* the file at ../model/clothes.json
    read_only,          \* whether the file system refuses writes
    data_file,          \* self.data_file: "given" or "fallback", "" before __init__
    fresh,              \* whether the given path had no file when the manager was made
    returned_ids,       \* the ids returned by add_clothing_item, in order
    count_before,       \* len(get_all_clothes()) before the last add
    add_args,           \* the arguments of the last add
    edits,              \* "delete", "update" or "update id" for each of those calls, in order
    last_call,          \* the last add, delete or update: its arguments and what it did
    \* ---- AIService.validate_and_crop_user_photo ----
    photo,              \* img_bytes, None before a photo is submitted
    has_keys,           \* whether self.gemini_keys is not empty
    has_genai,          \* whether the genai module loads
    answer,             \* what the oracle does with the request
    verdict,            \* the dictionary returned, NoVerdict before
    \* ---- the endpoints of main.py ----
    api_clock,          \* int(time.time())
    cloudinary_on,      \* whether CLOUDINARY_URL is set
    api_read_only,      \* whether the file system refuses writes
    model_dir,          \* the image files of MODEL_DIR: name to content
    cloud_store,        \* the URLs of the images Cloudinary holds
    db,                 \* the catalogue of clothes_manager
    up,                 \* what each upload request has done: at is "idle", "gather" or "done"
    resp                \* the last answer to a try-on, update or delete request

tryon_vars == <<pc, person, cloth, replicate_token, method, final_result_bytes, hist,
                raised, produced, outcome, exc, retval, wm_in, wm_env>>

gradio_vars == <<now, tmpdir, gpc, proc_cloth_path, person_path, orig_pil,
                 padded_person_path, sent>>

analyze_vars == <<apc, gemini_keys, genai_module, rotated_keys, key_idx, model_idx,
                  configured_key, attempts, errors_len, last_error, analysis_result,
                  parsed, upload_status>>

ratio_vars == <<target_ratio, ar_calls, ar_prev, ar_img, ar_offset>>

trim_vars == <<trim_im, trim_out>>

key_vars == <<rb_calls, rb_prev, rb_img>>

category_vars == <<cloth_name, category, ootd_category, replicate_category>>

garment_vars == <<person_size, c_size, g_category, height_ratio, g_undershoot, c_img_resized>>

manager_vars == <<given_file, fallback_file, read_only, data_file, fresh, returned_ids, count_before, add_args,
                  edits, last_call>>

validate_vars == <<photo, has_keys, has_genai, answer, verdict>>

api_vars == <<api_clock, cloudinary_on, api_read_only, model_dir, cloud_store, db, up, resp>>

vars == <<tryon_vars, gradio_vars, analyze_vars, ratio_vars, trim_vars, key_vars, category_vars, garment_vars, manager_vars, validate_vars, api_vars>>

\* what the actions of each part leave alone
not_tryon_vars == <<gradio_vars, analyze_vars, ratio_vars, trim_vars, key_vars, category_vars, garment_vars, manager_vars, validate_vars, api_vars>>

not_gradio_vars == <<tryon_vars, analyze_vars, ratio_vars, trim_vars, key_vars, category_vars, garment_vars, manager_vars, validate_vars, api_vars>>

not_analyze_vars == <<tryon_vars, gradio_vars, ratio_vars, trim_vars, key_vars, category_vars, garment_vars, manager_vars, validate_vars, api_vars>>

not_ratio_vars == <<tryon_vars, gradio_vars, analyze_vars, trim_vars, key_vars, category_vars, garment_vars, manager_vars, validate_vars, api_vars>>

not_trim_vars == <<tryon_vars, gradio_vars, analyze_vars, ratio_vars, key_vars, category_vars, garment_vars, manager_vars, validate_vars, api_vars>>

not_key_vars == <<tryon_vars, gradio_vars, analyze_vars, ratio_vars, trim_vars, category_vars, garment_vars, manager_vars, validate_vars, api_vars>>

not_category_vars == <<tryon_vars, gradio_vars, analyze_vars, ratio_vars, trim_vars, key_vars, garment_vars, manager_vars, validate_vars, api_vars>>

not_garment_vars == <<tryon_vars, gradio_vars, analyze_vars, ratio_vars, trim_vars, key_vars, category_vars, manager_vars, validate_vars, api_vars>>

not_manager_vars == <<tryon_vars, gradio_vars, analyze_vars, ratio_vars, trim_vars, key_vars, category_vars, garment_vars, validate_vars, api_vars>>

not_validate_vars == <<tryon_vars, gradio_vars, analyze_vars, ratio_vars, trim_vars, key_vars, category_vars, garment_vars, manager_vars, api_vars>>

not_api_vars == <<tryon_vars, gradio_vars, analyze_vars, ratio_vars, trim_vars, key_vars, category_vars, garment_vars, manager_vars, validate_vars>>

(***************************************************************************)
(* Bounds                                                                  *)
(***************************************************************************)
\* widths and heights range over 1..MaxDim
MaxDim == 4

Dims == (1..MaxDim) \X (1..MaxDim)

(***************************************************************************)
(* Byte strings                                                            *)
(***************************************************************************)
\* Python's None
None == [kind |-> "None", src |-> "", ok |-> FALSE, w |-> 0, h |-> 0, stamped |-> FALSE]

\* b"" (an HTTP 200 answer with an empty body)
EmptyBytes == [kind |-> "empty", src |-> "", ok |-> FALSE, w |-> 0, h |-> 0, stamped |-> FALSE]

\* the bytes of an image: ok says whether PIL's Image.open decodes them
Img(src, ok, w, h) ==
    [kind |-> "image", src |-> src, ok |-> ok, w |-> w, h |-> h, stamped |-> FALSE]

Images(src) == {Img(src, ok, d[1], d[2]) : ok \in BOOLEAN, d \in Dims}

\* Python truthiness of a bytes-or-None value: `not x`
Falsy(x) == x.kind # "image"

(***************************************************************************)
(* AIService._add_watermark                                                *)
(***************************************************************************)
\* What the environment does inside one call: nothing wrong; the PIL import
\* fails; truetype() fails and load_default() serves; both fail; textbbox()
\* or text() fails; save() fails.
WmEnvs == {"fine", "no_pil", "no_truetype", "no_font", "draw_error", "save_error"}

\* The body of the try block (lines 611-657): an exception, or the stamped
\* JPEG bytes.  Image.open(...).convert raises on bytes PIL cannot decode;
\* the inner try/except replaces a failing truetype() by load_default().
add_watermark_try(img_bytes, env) ==
    IF env = "no_pil" THEN [exception |-> TRUE, value |-> None]
    ELSE IF ~img_bytes.ok THEN [exception |-> TRUE, value |-> None]
    ELSE IF env = "no_font" THEN [exception |-> TRUE, value |-> None]
    ELSE IF env = "draw_error" THEN [exception |-> TRUE, value |-> None]
    ELSE IF env = "save_error" THEN [exception |-> TRUE, value |-> None]
    ELSE [exception |-> FALSE, value |-> [img_bytes EXCEPT !.stamped = TRUE]]

\* the same function without its `except Exception: return img_bytes`
add_watermark_no_except(img_bytes, env) ==
    LET r == add_watermark_try(img_bytes, env)
    IN  [raises |-> r.exception, value |-> r.value]

_add_watermark(img_bytes, env) ==
    LET r == add_watermark_try(img_bytes, env)
    IN  IF r.exception
        THEN [raises |-> FALSE, value |-> img_bytes]
        ELSE [raises |-> FALSE, value |-> r.value]

(***************************************************************************)
(* AIService._try_on_gradio, as virtual_try_on sees it                     *)
(***************************************************************************)
RECURSIVE IsPow2(_)
IsPow2(n) == n = 1 \/ (n > 1 /\ n % 2 = 0 /\ IsPow2(n \div 2))

RECURSIVE GCD(_, _)
GCD(m, n) == IF n = 0 THEN m ELSE GCD(n, m % n)

\* int(n * (a / b)) in Python floats, for naturals n, a and b > 0: the floor
\* of the exact quotient; when the exact product is a whole number q >= 1 and
\* a / b is not exact in binary (in lowest terms its denominator is no power
\* of two), the float product may fall just below q (49 * (1/49) is
\* 0.9999999999999999, 21 * (942/42) is 470.99999999999994) and int() then
\* gives q - 1.
IntOfProduct(n, a, b, undershoot) ==
    LET q == (n * a) \div b
    IN  IF undershoot /\ (n * a) % b = 0 /\ q >= 1 /\ ~IsPow2(b \div GCD(a, b))
        THEN q - 1
        ELSE q

\* Lines 375-407 and 464-500: the size of res_cropped for a person image of
\* orig_w x orig_h and a result of rw x rh.  target_ratio is 0.75, so
\* int(orig_h * 0.75) is (3 * orig_h) \div 4 and int(orig_w / 0.75) is
\* (4 * orig_w) \div 3; pad_w and pad_h are the left and top paddings.
UnPadSize(orig_w, orig_h, rw, rh, undershoot) ==
    LET target_w_in == (3 * orig_h) \div 4
        target_h_in == (4 * orig_w) \div 3
        pad_w == IF 4 * orig_w < 3 * orig_h THEN (target_w_in - orig_w) \div 2 ELSE 0
        pad_h == IF 4 * orig_w > 3 * orig_h THEN (target_h_in - orig_h) \div 2 ELSE 0
    IN  IF pad_w > 0
        THEN <<IntOfProduct(rw, orig_w, target_w_in, undershoot), rh>>
        ELSE IF pad_h > 0
        THEN <<rw, IntOfProduct(rh, orig_h, target_h_in, undershoot)>>
        ELSE <<rw, rh>>

\* what client.predict does: raises, answers nothing, answers a path that
\* does not exist, or answers the path of an image file
PredictOutcomes == {"raise", "empty", "invalid_path", "image"}

\* The environment of one call: whether gradio_client imports, the outcome of
\* the /process_dc call and of the /process_hd call made when that raises, the
\* result file (decodable or not, its size), and the float rounding.
GradioEnvs ==
    [gradio_client : BOOLEAN, process_dc : PredictOutcomes, process_hd : PredictOutcomes,
     res_ok : BOOLEAN, res_size : Dims, undershoot : BOOLEAN]

GradioRaise == [kind |-> "raise", value |-> None]

\* The function's result: it raises "VTON Error: ...", returns None, or
\* returns JPEG bytes.  Every exception inside is caught at line 515 and
\* raised again as the VTON Error.
_try_on_gradio(person_bytes, cloth_file, env) ==
    IF ~env.gradio_client THEN GradioRaise
    ELSE IF cloth_file # "ok" THEN GradioRaise
    ELSE IF ~person_bytes.ok THEN GradioRaise
    ELSE LET result == IF env.process_dc # "raise" THEN env.process_dc ELSE env.process_hd
         IN  IF result = "raise" THEN GradioRaise
             ELSE IF result # "image" THEN [kind |-> "return", value |-> None]
             ELSE IF ~env.res_ok THEN GradioRaise
             ELSE LET size == UnPadSize(person_bytes.w, person_bytes.h,
                                        env.res_size[1], env.res_size[2], env.undershoot)
                  IN  IF size[1] = 0 \/ size[2] = 0
                      THEN GradioRaise
                      ELSE [kind |-> "return",
                            value |-> Img("gradio", TRUE, size[1], size[2])]

(***************************************************************************)
(* AIService._ensure_aspect_ratio                                          *)
(*                                                                         *)
(* target_ratio is the rational p / q.  The code computes in floats; with  *)
(* q a power of two p / q is exact in binary, h * (p / q) is exact, and    *)
(* w / (p / q) is rounded correctly, so int() of them is the floor of the  *)
(* exact quotient.  w / h differs from p / q by a multiple of 1 / (h * q), *)
(* which for h * q < 100 is never exactly 0.01, so the float comparison    *)
(* with 0.01 decides as the exact one does.  w and h are the sizes after   *)
(* ImageOps.exif_transpose.                                                *)
(***************************************************************************)
\* widths and heights of the images padded range over 1..MaxSide
MaxSide == 12

\* numerators of target_ratio range over 1..MaxRatioNum
MaxRatioNum == 3

\* the function is applied at most MaxApply times in a row
MaxApply == 2

\* denominators that keep p / q exact in binary
RatioDens == {1, 2, 4}

Ratios == (1..MaxRatioNum) \X RatioDens

\* an image file: whether PIL decodes it, and its size
Pic(ok, w, h) == [ok |-> ok, w |-> w, h |-> h]

Pics == {Pic(ok, w, h) : ok \in BOOLEAN, w \in 1..MaxSide, h \in 1..MaxSide}

NoPic == Pic(FALSE, 0, 0)

Abs(x) == IF x < 0 THEN -x ELSE x

\* abs(current_ratio - target_ratio) < 0.01  (line 199)
WithinTolerance(w, h, p, q) == 100 * Abs(w * q - p * h) < h * q

\* the function with the multiplication and the division exchanged
ensure_aspect_ratio_swapped(img, ratio) ==
    LET w == img.w
        h == img.h
        p == ratio[1]
        q == ratio[2]
    IN  IF ~img.ok THEN [img |-> img, offset |-> <<0, 0>>]
        ELSE IF WithinTolerance(w, h, p, q) THEN [img |-> img, offset |-> <<0, 0>>]
        ELSE IF w * q < p * h
        THEN LET new_w == (h * q) \div p
             IN  [img |-> Pic(TRUE, new_w, h), offset |-> <<(new_w - w) \div 2, 0>>]
        ELSE LET new_h == (w * p) \div q
             IN  [img |-> Pic(TRUE, w, new_h), offset |-> <<0, (new_h - h) \div 2>>]

\* the function pasting the original at the corner of the padded canvas
ensure_aspect_ratio_corner(img, ratio) ==
    LET w == img.w
        h == img.h
        p == ratio[1]
        q == ratio[2]
    IN  IF ~img.ok THEN [img |-> img, offset |-> <<0, 0>>]
        ELSE IF WithinTolerance(w, h, p, q) THEN [img |-> img, offset |-> <<0, 0>>]
        ELSE IF w * q < p * h
        THEN [img |-> Pic(TRUE, (h * p) \div q, h), offset |-> <<0, 0>>]
        ELSE [img |-> Pic(TRUE, w, (w * q) \div p), offset |-> <<0, 0>>]

\* the function rounding the padded side up past the exact size
ensure_aspect_ratio_round_up(img, ratio) ==
    LET w == img.w
        h == img.h
        p == ratio[1]
        q == ratio[2]
    IN  IF ~img.ok THEN [img |-> img, offset |-> <<0, 0>>]
        ELSE IF WithinTolerance(w, h, p, q) THEN [img |-> img, offset |-> <<0, 0>>]
        ELSE IF w * q < p * h
        THEN LET new_w == (h * p) \div q + 1
             IN  [img |-> Pic(TRUE, new_w, h), offset |-> <<(new_w - w) \div 2, 0>>]
        ELSE LET new_h == (w * q) \div p + 1
             IN  [img |-> Pic(TRUE, w, new_h), offset |-> <<0, (new_h - h) \div 2>>]

\* Lines 180-229: the image returned and the offset at which the original
\* was pasted.  Bytes that do not decode raise inside the try block and are
\* returned as they are (line 229).
_ensure_aspect_ratio(img, ratio) ==
    LET w == img.w
        h == img.h
        p == ratio[1]
        q == ratio[2]
    IN  IF ~img.ok THEN [img |-> img, offset |-> <<0, 0>>]
        ELSE IF WithinTolerance(w, h, p, q) THEN [img |-> img, offset |-> <<0, 0>>]
        ELSE IF w * q < p * h
        THEN LET new_w == (h * p) \div q
             IN  [img |-> Pic(TRUE, new_w, h), offset |-> <<(new_w - w) \div 2, 0>>]
        ELSE LET new_h == (w * q) \div p
             IN  [img |-> Pic(TRUE, w, new_h), offset |-> <<0, (new_h - h) \div 2>>]

RatioIdle ==
    /\ target_ratio = <<1, 1>>
    /\ ar_calls = 0
    /\ ar_prev = NoPic
    /\ ar_img = NoPic
    /\ ar_offset = <<0, 0>>

\* one application of the function to the current image
EnsureAspectRatio ==
    /\ ar_calls < MaxApply
    /\ ar_img # NoPic
    /\ LET r == _ensure_aspect_ratio(ar_img, target_ratio)
       IN  /\ ar_img' = r.img
           /\ ar_offset' = r.offset
    /\ ar_prev' = ar_img
    /\ ar_calls' = ar_calls + 1
    /\ UNCHANGED target_ratio
    /\ UNCHANGED not_ratio_vars

(***************************************************************************)
(* trim, the border trimmer nested in AIService._try_on_gradio             *)
(*                                                                         *)
(* A bitmap is its size and its pixels, a function from <<x, y>> with      *)
(* 0 <= x < w and 0 <= y < h to an RGB triple: trim is only called on      *)
(* Image.open(f).convert("RGB") (line 279).                                *)
(***************************************************************************)
\* bitmaps given to trim have at most MaxTrimPixels pixels
MaxTrimPixels == 6

\* white, a grey exactly 100 below white in every band, and a colour 101
\* below white in the red band only
TrimColours == {<<255, 255, 255>>, <<155, 155, 155>>, <<154, 255, 255>>}

Coords(w, h) == (0..(w - 1)) \X (0..(h - 1))

Bitmap(w, h, px) == [w |-> w, h |-> h, px |-> px]

\* the bitmaps of every shape with at most n pixels
Bitmaps(n, colours) ==
    UNION {{Bitmap(d[1], d[2], px) : px \in [Coords(d[1], d[2]) -> colours]} :
           d \in {e \in (1..n) \X (1..n) : e[1] * e[2] <= n}}

NoBitmap == Bitmap(0, 0, <<>>)

\* the 8-bit clipping of the ImageChops operations
Clip8(v) == IF v < 0 THEN 0 ELSE IF v > 255 THEN 255 ELSE v

\* ImageChops.difference, band by band
ChopsDifference(a, b) == [i \in 1..3 |-> Abs(a[i] - b[i])]

\* ImageChops.add(a, b, scale, offset): (a + b) / scale + offset, clipped
ChopsAdd(a, b, scale, offset) == [i \in 1..3 |-> Clip8((a[i] + b[i]) \div scale + offset)]

SetMin(S) == CHOOSE x \in S : \A y \in S : x <= y

SetMax(S) == CHOOSE x \in S : \A y \in S : x >= y

\* Image.getbbox: None for a bitmap that is zero in every band everywhere,
\* else <<left, upper, right, lower>> around the pixels that are not, right
\* and lower exclusive
getbbox(im) ==
    LET nonzero == {c \in Coords(im.w, im.h) : \E i \in 1..3 : im.px[c][i] # 0}
        xs == {c[1] : c \in nonzero}
        ys == {c[2] : c \in nonzero}
    IN  IF nonzero = {} THEN None
        ELSE <<SetMin(xs), SetMin(ys), SetMax(xs) + 1, SetMax(ys) + 1>>

\* Image.crop(box)
crop(im, box) ==
    LET w == box[3] - box[1]
        h == box[4] - box[2]
    IN  Bitmap(w, h, [c \in Coords(w, h) |-> im.px[<<c[1] + box[1], c[2] + box[2]>>]])

\* trim taking the right and lower edges of the box as the last differing
\* column and row
trim_inclusive(im) ==
    LET bg == im.px[<<0, 0>>]
        diff == [c \in Coords(im.w, im.h) |->
                    LET d == ChopsDifference(im.px[c], bg) IN ChopsAdd(d, d, 2, -100)]
        bbox == getbbox(Bitmap(im.w, im.h, diff))
    IN  IF bbox # None
        THEN crop(im, <<bbox[1], bbox[2], bbox[3] - 1, bbox[4] - 1>>)
        ELSE im

\* Lines 267-274.
trim(im) ==
    LET bg == im.px[<<0, 0>>]
        diff == [c \in Coords(im.w, im.h) |->
                    LET d == ChopsDifference(im.px[c], bg) IN ChopsAdd(d, d, 2, -100)]
        bbox == getbbox(Bitmap(im.w, im.h, diff))
    IN  IF bbox # None THEN crop(im, bbox) ELSE im

TrimIdle ==
    /\ trim_im = NoBitmap
    /\ trim_out = NoBitmap

\* Line 280: c_img_trimmed = trim(raw_c_img)
Trim ==
    /\ trim_im # NoBitmap
    /\ trim_out = NoBitmap
    /\ trim_out' = trim(trim_im)
    /\ UNCHANGED trim_im
    /\ UNCHANGED not_trim_vars

(***************************************************************************)
(* AIService._remove_background_simple                                     *)
(*                                                                         *)
(* A raster is a PIL image: its mode, whether its data loads, and a bitmap *)
(* whose pixels are RGB triples or RGBA 4-tuples according to the mode.    *)
(***************************************************************************)
\* rasters given to the keyer have at most MaxKeyPixels pixels
MaxKeyPixels == 2

\* bands at, just above and far from the threshold of 200
RGBColours == {<<255, 255, 255>>, <<201, 201, 201>>, <<201, 201, 200>>, <<30, 60, 90>>}

RGBAColours == {<<255, 255, 255, 255>>, <<255, 255, 255, 0>>, <<201, 201, 201, 128>>,
                <<200, 201, 201, 128>>, <<201, 200, 255, 0>>, <<30, 60, 90, 255>>}

Raster(mode, ok, bm) == [mode |-> mode, ok |-> ok, w |-> bm.w, h |-> bm.h, px |-> bm.px]

Rasters ==
    {Raster("RGB", ok, bm) : ok \in BOOLEAN, bm \in Bitmaps(MaxKeyPixels, RGBColours)}
        \cup {Raster("RGBA", ok, bm) :
                 ok \in BOOLEAN, bm \in Bitmaps(MaxKeyPixels, RGBAColours)}

NoRaster == Raster("", FALSE, NoBitmap)

\* img.convert("RGBA"): an RGB pixel gets the alpha 255
ConvertRGBA(img) ==
    IF img.mode = "RGBA" THEN img
    ELSE [img EXCEPT !.mode = "RGBA",
                     !.px = [c \in Coords(img.w, img.h) |->
                                <<img.px[c][1], img.px[c][2], img.px[c][3], 255>>]]

\* the keyer taking 200 itself as light
remove_background_from_200(img) ==
    IF ~img.ok THEN img
    ELSE LET rgba == ConvertRGBA(img)
         IN  [rgba EXCEPT !.px = [c \in Coords(rgba.w, rgba.h) |->
                 LET item == rgba.px[c]
                 IN  IF item[1] >= 200 /\ item[2] >= 200 /\ item[3] >= 200
                     THEN <<255, 255, 255, 0>>
                     ELSE item]]

\* the keyer halving the alpha of a light pixel
remove_background_fade(img) ==
    IF ~img.ok THEN img
    ELSE LET rgba == ConvertRGBA(img)
         IN  [rgba EXCEPT !.px = [c \in Coords(rgba.w, rgba.h) |->
                 LET item == rgba.px[c]
                 IN  IF item[1] > 200 /\ item[2] > 200 /\ item[3] > 200
                     THEN <<255, 255, 255, item[4] \div 2>>
                     ELSE item]]

\* Lines 155-178.  An image whose data does not load raises in convert and
\* is returned as it is (line 178).
_remove_background_simple(img) ==
    IF ~img.ok THEN img
    ELSE LET rgba == ConvertRGBA(img)
         IN  [rgba EXCEPT !.px = [c \in Coords(rgba.w, rgba.h) |->
                 LET item == rgba.px[c]
                 IN  IF item[1] > 200 /\ item[2] > 200 /\ item[3] > 200
                     THEN <<255, 255, 255, 0>>
                     ELSE item]]

KeyIdle ==
    /\ rb_calls = 0
    /\ rb_prev = NoRaster
    /\ rb_img = NoRaster

\* one application of the keyer to the current image
RemoveBackground ==
    /\ rb_calls < MaxApply
    /\ rb_img # NoRaster
    /\ rb_img' = _remove_background_simple(rb_img)
    /\ rb_prev' = rb_img
    /\ rb_calls' = rb_calls + 1
    /\ UNCHANGED not_key_vars

(***************************************************************************)
(* The garment category of AIService._try_on_gradio                        *)
(*                                                                         *)
(* A display name is a sequence of characters.  "qun" stands for U+88D9    *)
(* (skirt), "yang" "zhuang" for U+6D0B U+88DD (dress), "ku" for U+8932     *)
(* (trousers) and "x" for any other character.                             *)
(***************************************************************************)
\* display names are at most MaxNameLen characters long
MaxNameLen == 3

NameChars == {"qun", "yang", "zhuang", "ku", "x"}

ClothNames == UNION {[1..n -> NameChars] : n \in 0..MaxNameLen}

\* the category argument: None or a string
NoCategory == [kind |-> "None", s |-> ""]

Str(s) == [kind |-> "str", s |-> s]

\* no call yet
NotCalled == [kind |-> "", s |-> ""]

\* str.lower on the category strings considered
LowerTable ==
    [s \in {"", "Upper-body", "upper_body", "Lower-body", "LOWER_BODY", "lower_body",
            "Bottom", "Dress", "dress", "Dresses", "Whole-body", "whole_body",
            "lower body", "hat"} |->
        CASE s = "Upper-body" -> "upper-body"
          [] s = "Lower-body" -> "lower-body"
          [] s = "LOWER_BODY" -> "lower_body"
          [] s = "Bottom" -> "bottom"
          [] s = "Dress" -> "dress"
          [] s = "Dresses" -> "dresses"
          [] s = "Whole-body" -> "whole-body"
          [] OTHER -> s]

CategoryArgs == {NoCategory} \cup {Str(s) : s \in DOMAIN LowerTable}

\* `sub in name` for strings
Contains(name, sub) ==
    \E i \in 0..(Len(name) - Len(sub)) :
        \A j \in 1..Len(sub) : name[i + j] = sub[j]

\* the derivation looking for trousers before skirts and dresses
ootd_category_trousers_first(name, cat) ==
    LET derived ==
            IF cat.kind = "None" \/ cat.s = ""
            THEN IF Contains(name, <<"ku">>) THEN "Lower-body"
                 ELSE IF Contains(name, <<"qun">>)
                         \/ Contains(name, <<"yang", "zhuang">>) THEN "Dress"
                 ELSE "Upper-body"
            ELSE cat.s
        lower == IF derived \in DOMAIN LowerTable THEN LowerTable[derived] ELSE derived
    IN  IF lower \in {"lower-body", "lower_body", "bottom"} THEN "Lower-body"
        ELSE IF lower \in {"dress", "dresses", "whole-body", "whole_body"} THEN "Dress"
        ELSE "Upper-body"

\* Lines 245-259.
ootd_category_of(name, cat) ==
    LET derived ==
            IF cat.kind = "None" \/ cat.s = ""
            THEN IF Contains(name, <<"qun">>)
                    \/ Contains(name, <<"yang", "zhuang">>) THEN "Dress"
                 ELSE IF Contains(name, <<"ku">>) THEN "Lower-body"
                 ELSE "Upper-body"
            ELSE cat.s
        lower == IF derived \in DOMAIN LowerTable THEN LowerTable[derived] ELSE derived
    IN  IF lower \in {"lower-body", "lower_body", "bottom"} THEN "Lower-body"
        ELSE IF lower \in {"dress", "dresses", "whole-body", "whole_body"} THEN "Dress"
        ELSE "Upper-body"

\* Line 704: the "category" input of client.run; None.lower() raises
\* AttributeError, which line 721 catches
replicate_category_of(cat) ==
    IF cat.kind = "None" THEN "raised"
    ELSE LET lower == IF cat.s \in DOMAIN LowerTable THEN LowerTable[cat.s] ELSE cat.s
         IN  IF lower \in {"upper_body", "lower_body", "dresses"} THEN lower
             ELSE "upper_body"

CategoryIdle ==
    /\ cloth_name = <<>>
    /\ category = NotCalled
    /\ ootd_category = ""
    /\ replicate_category = ""

\* Lines 699-708: virtual_try_on builds the input of the Replicate model
SendReplicate ==
    /\ replicate_category = ""
    /\ ootd_category = ""
    /\ category # NotCalled
    /\ replicate_category' = replicate_category_of(category)
    /\ UNCHANGED <<cloth_name, category, ootd_category>>
    /\ UNCHANGED not_category_vars

\* Lines 245-259: the category sent to the model is settled
DetermineCategory ==
    /\ ootd_category = ""
    /\ category # NotCalled
    /\ ootd_category' = ootd_category_of(cloth_name, category)
    /\ UNCHANGED <<cloth_name, category, replicate_category>>
    /\ UNCHANGED not_category_vars

(***************************************************************************)
(* The garment standardisation of AIService._try_on_gradio                 *)
(*                                                                         *)
(* The trimmed garment is fitted into a white canvas_w x canvas_h canvas.  *)
(* 0.9, 0.92 and 0.55 are the fractions 9/10, 92/100 and 11/20; int() of a *)
(* float product is IntOfProduct.                                          *)
(***************************************************************************)
\* trimmed garments have sides in 1..MaxGarment, or a hundred times that,
\* or 21 or 42 (21 * (942 / 42) is below 471 in floats)
MaxGarment == 4

\* person images have sides of 250, 500, ... up to MaxPersonUnits * 250
MaxPersonUnits == 4

\* line 284
canvas_w == 768

\* line 284
canvas_h == 1024

GarmentSides == (1..MaxGarment) \cup {100 * k : k \in 1..MaxGarment} \cup {21, 42}

GarmentSizes == GarmentSides \X GarmentSides

PersonSizes == {250 * k : k \in 1..MaxPersonUnits} \X {250 * k : k \in 1..MaxPersonUnits}

\* the height_ratio argument: None, or <<p, q>> for p / q in (0, 1]
NoRatio == <<0, 0>>

HeightRatios == {NoRatio, <<1, 2>>, <<9, 10>>, <<1, 1>>}

OotdCategories == {"Upper-body", "Lower-body", "Dress"}

NoSize ==
    [ok |-> FALSE, left |-> 0, src_w |-> 0, capped |-> FALSE, new_w |-> 0, new_h |-> 0,
     paste_x |-> 0, paste_y |-> 0]

\* c_img_resized and where it is pasted: left and src_w are the left edge
\* and the width of what is kept of the trimmed garment, capped tells
\* whether the width cap of line 319 was applied; ok is FALSE when resize is
\* given a side of 0 and raises
Resized(left, src_w, capped, new_w, new_h, paste_x, paste_y) ==
    [ok |-> new_w > 0 /\ new_h > 0, left |-> left, src_w |-> src_w, capped |-> capped,
     new_w |-> new_w, new_h |-> new_h, paste_x |-> paste_x, paste_y |-> paste_y]

\* the lower-body branch scaling the garment without cropping it
standardize_lower_stretched(c_w, c_h, undershoot) ==
    LET target_h == (canvas_h * 92) \div 100
        cap == (canvas_w * 9) \div 10
        w1 == IntOfProduct(c_w, target_h, c_h, undershoot)
        capped == w1 > cap
        new_w == IF capped THEN IntOfProduct(c_w, 9 * canvas_w, 10 * c_w, undershoot) ELSE w1
        new_h == IF capped THEN IntOfProduct(c_h, 9 * canvas_w, 10 * c_w, undershoot)
                 ELSE target_h
    IN  Resized(0, c_w, capped, new_w, new_h, (canvas_w - new_w) \div 2, canvas_h - new_h)

\* Lines 293-330: a garment for the lower body is cropped at the sides to
\* the aspect 0.55, scaled to 92% of the canvas height, capped at 90% of its
\* width, and pasted flush with the bottom.  The float 0.55 lies above
\* 11/20, so that c_w / c_h > 0.55 is 20 * c_w > 11 * c_h and int(c_h * 0.55)
\* is the floor of 11 * c_h / 20; int(1024 * 0.92) is 942 and int(768 * 0.9)
\* is 691.
standardize_lower(c_w0, c_h, undershoot) ==
    LET too_wide == 20 * c_w0 > 11 * c_h
        new_source_w == (c_h * 11) \div 20
        left == IF too_wide THEN (c_w0 - new_source_w) \div 2 ELSE 0
        c_w == IF too_wide THEN new_source_w ELSE c_w0
        target_h == (canvas_h * 92) \div 100
        cap == (canvas_w * 9) \div 10
        w1 == IntOfProduct(c_w, target_h, c_h, undershoot)
        capped == w1 > cap
        new_w == IF capped THEN IntOfProduct(c_w, 9 * canvas_w, 10 * c_w, undershoot) ELSE w1
        new_h == IF capped THEN IntOfProduct(c_h, 9 * canvas_w, 10 * c_w, undershoot)
                 ELSE target_h
    IN  Resized(left, c_w, capped, new_w, new_h, (canvas_w - new_w) \div 2, canvas_h - new_h)

\* Lines 332-339: any other garment is scaled to fit 90% of the canvas both
\* ways and pasted in the middle.
standardize_other(c_w, c_h, undershoot) ==
    LET by_width == canvas_w * c_h <= canvas_h * c_w
        new_w == IF by_width THEN IntOfProduct(c_w, 9 * canvas_w, 10 * c_w, undershoot)
                 ELSE IntOfProduct(c_w, 9 * canvas_h, 10 * c_h, undershoot)
        new_h == IF by_width THEN IntOfProduct(c_h, 9 * canvas_w, 10 * c_w, undershoot)
                 ELSE IntOfProduct(c_h, 9 * canvas_h, 10 * c_h, undershoot)
    IN  Resized(0, c_w, FALSE, new_w, new_h, (canvas_w - new_w) \div 2,
                (canvas_h - new_h) \div 2)

\* Lines 282-339.  height_ratio is a parameter of _try_on_gradio (line 231)
\* that its body never reads.
standardize(size, cat, ratio, undershoot) ==
    IF cat = "Lower-body"
    THEN standardize_lower(size[1], size[2], undershoot)
    ELSE standardize_other(size[1], size[2], undershoot)

GarmentIdle ==
    /\ person_size = <<0, 0>>
    /\ c_size = <<0, 0>>
    /\ g_category = ""
    /\ height_ratio = NoRatio
    /\ g_undershoot = FALSE
    /\ c_img_resized = NoSize

\* Lines 282-339 in a call virtual_try_on(..., height_ratio=height_ratio)
\* made by try_on (main.py lines 410-418)
StandardizeGarment ==
    /\ c_size # <<0, 0>>
    /\ c_img_resized = NoSize
    /\ c_img_resized' = standardize(c_size, g_category, height_ratio, g_undershoot)
    /\ UNCHANGED <<person_size, c_size, g_category, height_ratio, g_undershoot>>
    /\ UNCHANGED not_garment_vars

(***************************************************************************)
(* ClothesManager in local-JSON mode (MONGODB_URI not set)                 *)
(*                                                                         *)
(* A string that is an id is a sequence of characters: the digits, "x" for *)
(* any other character, and ".jpg" and ".png" for those four characters in *)
(* a row.  A file is absent, holds a JSON list of items, or holds text     *)
(* that is not JSON.                                                       *)
(***************************************************************************)
\* add_clothing_item is called at most MaxAdds times
MaxAdds == 3

\* delete_clothing_item and update_clothing_item are called at most MaxEdits
\* times together
MaxEdits == 2

DigitChars == <<"0", "1", "2", "3", "4", "5", "6", "7", "8", "9">>

IsDigitChar(c) == \E d \in 1..10 : DigitChars[d] = c

DigitValue(c) == (CHOOSE d \in 1..10 : DigitChars[d] = c) - 1

\* str(n) for a natural number n
RECURSIVE Decimal(_)
Decimal(n) ==
    IF n < 10 THEN <<DigitChars[n + 1]>>
    ELSE Append(Decimal(n \div 10), DigitChars[(n % 10) + 1])

\* f"{n:03d}"
Format03d(n) ==
    LET d == Decimal(n)
    IN  IF Len(d) >= 3 THEN d
        ELSE [i \in 1..(3 - Len(d)) |-> "0"] \o d

\* str.isdigit
isdigit(str) == str # <<>> /\ \A i \in DOMAIN str : IsDigitChar(str[i])

\* int(str) for a string of digits
RECURSIVE int(_)
int(str) ==
    IF str = <<>> THEN 0
    ELSE 10 * int(SubSeq(str, 1, Len(str) - 1)) + DigitValue(str[Len(str)])

\* str.replace(ext, '')
Without(str, ext) == SelectSeq(str, LAMBDA c : c # ext)

Item(id, args) ==
    [id |-> id, name |-> args[1], height_range |-> args[2], gender |-> args[3],
     style |-> args[4], category |-> "Upper-body", image_url |-> ""]

\* the arguments of the two calls of test_manager.py, lines 15 and 25
AddArgs == {<<"Test_Shirt", "160-170cm", "neutral", "Casual">>,
            <<"Test Skirt", "150-160cm", "female", "Formal">>}

NoArgs == <<"", "", "", "">>

NoItem == Item(<<>>, NoArgs)

AbsentFile == [state |-> "absent", items |-> <<>>]

CorruptFile == [state |-> "corrupt", items |-> <<>>]

JsonFile(items) == [state |-> "json", items |-> items]

\* catalogues found on disk when the manager is made
SeedCatalogues ==
    {<<>>,
     <<Item(<<"0", "0", "7">>, <<"Old Coat", "160-170cm", "neutral", "Casual">>)>>,
     <<Item(<<"x">>, <<"Old Coat", "160-170cm", "neutral", "Casual">>),
       Item(<<"0", "0", "9", ".jpg">>, <<"Old Hat", "150-160cm", "female", "Formal">>)>>,
     <<Item(<<"9", "9", "9">>, <<"Old Coat", "160-170cm", "neutral", "Casual">>)>>}

\* catalogues found at ../model/clothes.json
FallbackCatalogues == {c \in SeedCatalogues : Len(c) # 1}

\* the file the manager reads and writes
DataFile == IF data_file = "fallback" THEN fallback_file ELSE given_file

\* Lines 74-93 (local JSON): [] for an absent file and for one that is not
\* JSON
get_all_clothes == IF DataFile.state = "json" THEN DataFile.items ELSE <<>>

\* Lines 95-114 (local JSON)
get_cloth_by_id(cloth_id) ==
    LET clothes == get_all_clothes
        hits == {i \in DOMAIN clothes :
                    \/ clothes[i].id = cloth_id
                    \/ clothes[i].id = Without(cloth_id, ".jpg")}
    IN  IF hits = {} THEN NoItem ELSE clothes[SetMin(hits)]

\* the next id taken from the number of items
get_next_id_by_count(clothes) == Format03d(Len(clothes) + 1)

\* Lines 116-133
get_next_id(clothes) ==
    IF clothes = <<>> THEN <<"0", "0", "1">>
    ELSE LET numeric == {int(Without(Without(clothes[i].id, ".jpg"), ".png")) :
                            i \in {j \in DOMAIN clothes :
                                      isdigit(Without(Without(clothes[j].id, ".jpg"), ".png"))}}
             max_id == IF numeric = {} THEN 0 ELSE SetMax(numeric)
         IN  Format03d(max_id + 1)

\* Lines 222-231: what the data file holds after save_all_clothes; on a
\* read-only file system open() raises OSError, which is logged
save_all_clothes(clothes_list) ==
    IF read_only THEN DataFile ELSE JsonFile(clothes_list)

\* Lines 111 and 177: whether item c is one that cloth_id names
Matches(c, cloth_id) == c.id = cloth_id \/ c.id = Without(cloth_id, ".jpg")

\* the ids passed to delete_clothing_item and update_clothing_item
CallIds == {<<"0", "0", "1">>, <<"0", "0", "1", ".jpg">>, <<"0", "0", "9", ".jpg">>, <<"x">>}

\* A dict of updates: the keys it has and, in a record shaped like an item,
\* their values
Dict(keys, vals) == [keys |-> keys, vals |-> vals]

NoDict == Dict({}, NoItem)

\* the dicts passed to update_clothing_item; main.py sends name, style,
\* gender and height_range only (lines 496-511)
UpdateDicts ==
    {NoDict,
     Dict({"name"}, [NoItem EXCEPT !.name = "Renamed"]),
     Dict({"id"}, [NoItem EXCEPT !.id = <<"0", "0", "2">>])}

\* c.update(updates), line 210
dict_update(c, updates) ==
    LET Pick(k) == IF k \in updates.keys THEN updates.vals[k] ELSE c[k]
    IN  [id |-> Pick("id"), name |-> Pick("name"), height_range |-> Pick("height_range"),
         gender |-> Pick("gender"), style |-> Pick("style"), category |-> Pick("category"),
         image_url |-> Pick("image_url")]

\* Lines 165-191 (local JSON): the data file afterwards, the value returned
\* and whether save_all_clothes was called
delete_clothing_item(cloth_id) ==
    LET clothes == get_all_clothes
        kept == SelectSeq(clothes, LAMBDA c : /\ c.id # cloth_id
                                              /\ c.id # Without(cloth_id, ".jpg"))
    IN  IF Len(kept) < Len(clothes)
        THEN [file |-> save_all_clothes(kept), result |-> TRUE, saved |-> TRUE]
        ELSE [file |-> DataFile, result |-> FALSE, saved |-> FALSE]

\* Lines 193-220 (local JSON)
update_clothing_item(cloth_id, updates) ==
    LET clothes == get_all_clothes
        hits == {i \in DOMAIN clothes :
                    \/ clothes[i].id = cloth_id
                    \/ clothes[i].id = Without(cloth_id, ".jpg")}
    IN  IF hits # {}
        THEN [file |-> save_all_clothes([clothes EXCEPT ![SetMin(hits)] =
                                             dict_update(@, updates)]),
              result |-> TRUE, saved |-> TRUE]
        ELSE [file |-> DataFile, result |-> FALSE, saved |-> FALSE]

Call(op, cloth_id, updates, result, before, saved) ==
    [op |-> op, cloth_id |-> cloth_id, updates |-> updates, result |-> result,
     before |-> before, saved |-> saved]

NoCall == Call("", <<>>, NoDict, FALSE, <<>>, FALSE)

ManagerIdle ==
    /\ given_file = AbsentFile
    /\ fallback_file = AbsentFile
    /\ read_only = FALSE
    /\ data_file = ""
    /\ fresh = FALSE
    /\ returned_ids = <<>>
    /\ count_before = 0
    /\ add_args = NoArgs
    /\ edits = <<>>
    /\ last_call = NoCall

\* Lines 7-49: ClothesManager(data_file).  A data file that does not exist
\* is replaced by ../model/clothes.json when that exists (lines 28-32);
\* ensure_file_exists then writes [] to a file that does not exist, unless
\* the file system refuses (lines 42-49).
Construct ==
    /\ data_file = ""
    /\ fresh = (given_file = AbsentFile)
    /\ LET use_fallback == given_file.state = "absent" /\ fallback_file.state # "absent"
       IN  /\ data_file' = IF use_fallback THEN "fallback" ELSE "given"
           /\ given_file' = IF given_file.state = "absent" /\ ~use_fallback /\ ~read_only
                            THEN JsonFile(<<>>)
                            ELSE given_file
    /\ UNCHANGED <<fallback_file, read_only, fresh, returned_ids, count_before, add_args,
                   edits, last_call>>
    /\ UNCHANGED not_manager_vars

\* Lines 135-163 (local JSON): add_clothing_item(name, height_range, gender,
\* style)
AddClothingItem ==
    /\ data_file # ""
    /\ Len(returned_ids) < MaxAdds
    /\ \E args \in AddArgs :
          LET new_id == get_next_id(get_all_clothes)
              saved == save_all_clothes(Append(get_all_clothes, Item(new_id, args)))
          IN  /\ given_file' = IF data_file = "given" THEN saved ELSE given_file
              /\ fallback_file' = IF data_file = "fallback" THEN saved ELSE fallback_file
              /\ returned_ids' = Append(returned_ids, new_id)
              /\ count_before' = Len(get_all_clothes)
              /\ add_args' = args
              /\ last_call' = Call("add", new_id, NoDict, TRUE, get_all_clothes, TRUE)
    /\ UNCHANGED <<read_only, data_file, fresh, edits>>
    /\ UNCHANGED not_manager_vars

\* Lines 165-191 (local JSON): delete_clothing_item(cloth_id)
DeleteClothingItem ==
    /\ data_file # ""
    /\ Len(edits) < MaxEdits
    /\ \E cloth_id \in CallIds :
          LET done == delete_clothing_item(cloth_id)
          IN  /\ given_file' = IF data_file = "given" THEN done.file ELSE given_file
              /\ fallback_file' = IF data_file = "fallback" THEN done.file ELSE fallback_file
              /\ last_call' = Call("delete", cloth_id, NoDict, done.result, get_all_clothes,
                                   done.saved)
    /\ edits' = Append(edits, "delete")
    /\ UNCHANGED <<read_only, data_file, fresh, returned_ids, count_before, add_args>>
    /\ UNCHANGED not_manager_vars

\* Lines 193-220 (local JSON): update_clothing_item(cloth_id, updates)
UpdateClothingItem ==
    /\ data_file # ""
    /\ Len(edits) < MaxEdits
    /\ \E cloth_id \in CallIds, updates \in UpdateDicts :
          LET done == update_clothing_item(cloth_id, updates)
          IN  /\ given_file' = IF data_file = "given" THEN done.file ELSE given_file
              /\ fallback_file' = IF data_file = "fallback" THEN done.file ELSE fallback_file
              /\ last_call' = Call("update", cloth_id, updates, done.result, get_all_clothes,
                                   done.saved)
              /\ edits' = Append(edits, IF "id" \in updates.keys THEN "update id" ELSE "update")
    /\ UNCHANGED <<read_only, data_file, fresh, returned_ids, count_before, add_args>>
    /\ UNCHANGED not_manager_vars

(***************************************************************************)
(* AIService.validate_and_crop_user_photo                                  *)
(*                                                                         *)
(* The text of the oracle's answer is a sequence of tokens: "fence" for a  *)
(* markdown fence, "junk" for text that is no JSON, "[", "]", "null", and  *)
(* one token for a whole JSON object {...}: "obj_true" and "obj_false"     *)
(* have "valid" true and false, "obj_absent" has no "valid" and "obj_str"  *)
(* has the string "no" for it.                                             *)
(***************************************************************************)
\* answers of the oracle are at most MaxTextLen tokens long
MaxTextLen == 3

ObjectTokens == {"obj_true", "obj_false", "obj_absent", "obj_str"}

TextTokens == ObjectTokens \cup {"fence", "junk", "[", "]", "null"}

OracleTexts == UNION {[1..n -> TextTokens] : n \in 0..MaxTextLen}

\* what model.generate_content and response.text do
OracleAnswers ==
    {[kind |-> "raise", text |-> <<>>], [kind |-> "no_text", text |-> <<>>]}
        \cup {[kind |-> "text", text |-> t] : t \in OracleTexts}

\* photos submitted
Photos == {EmptyBytes, Img("user", TRUE, 1, 1), Img("user", FALSE, 1, 1)}

\* Lines 569-574: from the first "{" to the last "}" when there are both
BraceSlice(text) ==
    LET objs == {i \in DOMAIN text : text[i] \in ObjectTokens}
    IN  IF objs = {} THEN text ELSE SubSeq(text, SetMin(objs), SetMax(objs))

\* json.loads (line 576): "error" for text that is not JSON, else the kind
\* of the value and, for an object, the truth of its .get("valid", False)
loads(text) ==
    IF Len(text) = 1 /\ text[1] \in ObjectTokens
    THEN [kind |-> "dict", valid |-> text[1] \in {"obj_true", "obj_str"}]
    ELSE IF text = <<"null">> THEN [kind |-> "null", valid |-> FALSE]
    ELSE IF text = <<"[", "]">> \/ text = <<"[", "null", "]">>
    THEN [kind |-> "list", valid |-> FALSE]
    ELSE [kind |-> "error", valid |-> FALSE]

Verdict(valid, reason, processed_image) ==
    [valid |-> valid, reason |-> reason, processed_image |-> processed_image]

NoVerdict == Verdict(FALSE, "", None)

\* the function handing the photo back with a rejection as well
validate_keeping_photo(img_bytes, keys, genai, reply) ==
    IF ~keys THEN Verdict(FALSE, "no key", img_bytes)
    ELSE IF ~genai THEN Verdict(FALSE, "no module", img_bytes)
    ELSE IF reply.kind = "raise" THEN Verdict(FALSE, "connection failed", img_bytes)
    ELSE IF reply.kind = "no_text" THEN Verdict(TRUE, "format error, passed", img_bytes)
    ELSE LET data == loads(BraceSlice(Without(reply.text, "fence")))
         IN  IF data.kind = "error" THEN Verdict(TRUE, "format error, passed", img_bytes)
             ELSE IF data.kind # "dict" THEN Verdict(FALSE, "connection failed", img_bytes)
             ELSE IF ~data.valid THEN Verdict(FALSE, "rejected", img_bytes)
             ELSE Verdict(TRUE, "OK", img_bytes)

\* Lines 521-604.  keys: self.gemini_keys is not empty; genai: the module
\* loads.  An exception of generate_content, and the AttributeError of
\* data.get on a value that is no object, reach the outer handler (line
\* 601); an exception of response.text or of json.loads reaches the inner
\* one (line 577).
validate_and_crop_user_photo(img_bytes, keys, genai, reply) ==
    IF ~keys THEN Verdict(FALSE, "no key", None)
    ELSE IF ~genai THEN Verdict(FALSE, "no module", None)
    ELSE IF reply.kind = "raise" THEN Verdict(FALSE, "connection failed", None)
    ELSE IF reply.kind = "no_text" THEN Verdict(TRUE, "format error, passed", img_bytes)
    ELSE LET data == loads(BraceSlice(Without(reply.text, "fence")))
         IN  IF data.kind = "error" THEN Verdict(TRUE, "format error, passed", img_bytes)
             ELSE IF data.kind # "dict" THEN Verdict(FALSE, "connection failed", None)
             ELSE IF ~data.valid THEN Verdict(FALSE, "rejected", None)
             ELSE Verdict(TRUE, "OK", img_bytes)

ValidateIdle ==
    /\ photo = None
    /\ has_keys = FALSE
    /\ has_genai = FALSE
    /\ answer = [kind |-> "", text |-> <<>>]
    /\ verdict = NoVerdict

\* main.py line 332: result = ai_service.validate_and_crop_user_photo(content)
ValidatePhoto ==
    /\ photo # None
    /\ verdict = NoVerdict
    /\ verdict' = validate_and_crop_user_photo(photo, has_keys, has_genai, answer)
    /\ UNCHANGED <<photo, has_keys, has_genai, answer>>
    /\ UNCHANGED not_validate_vars

(***************************************************************************)
(* The endpoints of main.py: upload, try-on, delete and update             *)
(*                                                                         *)
(* A URL and a file name are sequences of characters like an id, with      *)
(* "http" for a URL's scheme and host, "/images/" and "temp_" for those    *)
(* characters in a row.  MODEL_DIR maps the names of its files to what     *)
(* they hold: the number of the upload request that wrote them, or 0 for   *)
(* an image that came with the catalogue.                                  *)
(***************************************************************************)
\* upload requests are numbered 1..MaxUploads
MaxUploads == 2

Uploads == 1..MaxUploads

\* the clock of the server shows 0..MaxSeconds
MaxSeconds == 1

\* the secure_url Cloudinary gives to the upload of request r
CloudUrl(r) == <<"http", "cloudinary">> \o Decimal(r) \o <<".jpg">>

\* Lines 283-284: f"temp_{int(time.time())}.jpg"
TempName(ts) == <<"temp_">> \o Decimal(ts) \o <<".jpg">>

\* Line 291: f"/images/{filename}"
LocalUrl(filename) == <<"/images/">> \o filename

\* url.startswith('http'), line 374
StartsWithHttp(url) == url # <<>> /\ url[1] = "http"

\* "cloudinary" in image_url, line 460
HasCloudinary(url) == \E i \in DOMAIN url : url[i] = "cloudinary"

\* an item as add_clothing_item stores it for upload_clothing (line 307)
Stored(id, image_url) ==
    [Item(id, <<"Shirt", "160-170cm", "neutral", "Casual">>) EXCEPT !.image_url = image_url]

\* the catalogue and MODEL_DIR a deployment starts with: nothing, or one
\* item whose image is <id>.jpg, as the bundled catalogue has them
SeedDeployments ==
    {[db |-> <<>>, dir |-> <<>>],
     [db |-> <<Stored(<<"0", "0", "7">>, <<>>)>>,
      dir |-> (<<"0", "0", "7", ".jpg">> :> 0)]}

\* the ids requests come with
RequestIds ==
    {<<"0", "0", "1">>, <<"0", "0", "2">>, <<"0", "0", "7">>, <<"0", "0", "8", ".jpg">>,
     <<"5", "5", "5">>}

\* the bodies of update requests: UpdateClothRequest without the None
\* values (lines 496-509)
UpdateBodies == {d \in UpdateDicts : d.keys \subseteq {"name", "style", "gender", "height_range"}}

UploadState(at, image_url, new_id) == [at |-> at, image_url |-> image_url, new_id |-> new_id]

Response(endpoint, cloth_id, existed, status, detail) ==
    [endpoint |-> endpoint, cloth_id |-> cloth_id, existed |-> existed,
     status |-> status, detail |-> detail]

NoResponse == Response("", <<>>, FALSE, 0, "")

\* get_cloth_by_id (clothes_manager.py lines 95-114) on the catalogue
cloth_by_id(clothes, cloth_id) ==
    LET hits == {i \in DOMAIN clothes : Matches(clothes[i], cloth_id)}
    IN  IF hits = {} THEN NoItem ELSE clothes[SetMin(hits)]

\* save_all_clothes (clothes_manager.py lines 222-231) on the catalogue
saved_catalogue(clothes_list) == IF api_read_only THEN db ELSE clothes_list

\* Lines 351-437: the answer of try_on(file, clothes_id); vton_ok tells
\* whether virtual_try_on returns an image.  Every HTTPException raised
\* inside the try is caught by "except Exception" (line 433) and answered
\* with status 500.
try_on(clothes_id, vton_ok) ==
    LET cloth_info == cloth_by_id(db, clothes_id)
        local_path == clothes_id \o <<".jpg">>
        downloaded == /\ StartsWithHttp(cloth_info.image_url)
                      /\ cloth_info.image_url \in cloud_store
        final_cloth_path == IF local_path \in DOMAIN model_dir THEN "local"
                            ELSE IF downloaded THEN "temp"
                            ELSE "None"
    IN  IF cloth_info = NoItem
        THEN Response("try_on", clothes_id, FALSE, 500, "Clothes not found in DB")
        ELSE IF final_cloth_path = "None"
        THEN Response("try_on", clothes_id, TRUE, 500, "Clothing image file not found")
        ELSE IF ~vton_ok
        THEN Response("try_on", clothes_id, TRUE, 500, "VTON Error")
        ELSE Response("try_on", clothes_id, TRUE, 200, "image/jpeg")

\* Lines 496-521: the answer of update_clothing(cloth_id, updates).  The
\* HTTPException of line 516 is caught at line 519.
update_clothing(cloth_id, updates) ==
    IF updates.keys = {}
    THEN Response("update", cloth_id, cloth_by_id(db, cloth_id) # NoItem, 200, "no_changes")
    ELSE IF cloth_by_id(db, cloth_id) = NoItem
    THEN Response("update", cloth_id, FALSE, 500, "Item not found or update failed")
    ELSE Response("update", cloth_id, TRUE, 200, "updated")

\* Lines 439-494: the answer of delete_clothing(cloth_id).  An
\* HTTPException is raised again as it is (lines 489-490).
delete_clothing(cloth_id) ==
    IF cloth_by_id(db, cloth_id) = NoItem
    THEN Response("delete", cloth_id, FALSE, 404, "Item not found")
    ELSE Response("delete", cloth_id, TRUE, 200, "deleted")

ApiIdle ==
    /\ api_clock = 0
    /\ cloudinary_on = FALSE
    /\ api_read_only = FALSE
    /\ model_dir = <<>>
    /\ cloud_store = {}
    /\ db = <<>>
    /\ up = <<>>
    /\ resp = NoResponse

\* time.time() moves on to the next second
ApiTick ==
    /\ up # <<>>
    /\ api_clock < MaxSeconds
    /\ api_clock' = api_clock + 1
    /\ UNCHANGED <<cloudinary_on, api_read_only, model_dir, cloud_store, db, up, resp>>
    /\ UNCHANGED not_api_vars

\* Lines 218-267: upload_clothing reads the file and awaits the analysis
\* and the Cloudinary upload, which run in threads
UploadReceive(r) ==
    /\ up # <<>>
    /\ up[r].at = "idle"
    /\ up' = [up EXCEPT ![r].at = "gather"]
    /\ UNCHANGED <<api_clock, cloudinary_on, api_read_only, model_dir, cloud_store, db, resp>>
    /\ UNCHANGED not_api_vars

\* Lines 268-315: after the gather nothing is awaited, so the rest of the
\* handler runs without another request in between.  The image goes to
\* Cloudinary, or else to MODEL_DIR under temp_<seconds>.jpg, or nowhere
\* when the file system refuses; then the item is added.
UploadStore(r) ==
    /\ up # <<>>
    /\ up[r].at = "gather"
    /\ \E uploaded_to_cloud \in (IF cloudinary_on THEN BOOLEAN ELSE {FALSE}) :
          LET filename == TempName(api_clock)
              image_url == IF uploaded_to_cloud THEN CloudUrl(r)
                           ELSE IF api_read_only THEN <<>>
                           ELSE LocalUrl(filename)
              new_id == get_next_id(db)
          IN  /\ cloud_store' = IF uploaded_to_cloud THEN cloud_store \cup {CloudUrl(r)}
                                ELSE cloud_store
              /\ model_dir' = IF uploaded_to_cloud \/ api_read_only THEN model_dir
                              ELSE (filename :> r) @@ model_dir
              /\ db' = saved_catalogue(Append(db, Stored(new_id, image_url)))
              /\ up' = [up EXCEPT ![r] = UploadState("done", image_url, new_id)]
    /\ UNCHANGED <<api_clock, cloudinary_on, api_read_only, resp>>
    /\ UNCHANGED not_api_vars

\* Lines 351-437
TryOnRequest ==
    /\ up # <<>>
    /\ \E clothes_id \in RequestIds, vton_ok \in BOOLEAN :
          resp' = try_on(clothes_id, vton_ok)
    /\ UNCHANGED <<api_clock, cloudinary_on, api_read_only, model_dir, cloud_store, db, up>>
    /\ UNCHANGED not_api_vars

\* Lines 496-521 with update_clothing_item (clothes_manager.py 193-220)
UpdateRequest ==
    /\ up # <<>>
    /\ \E cloth_id \in RequestIds, updates \in UpdateBodies :
          LET hits == {i \in DOMAIN db : Matches(db[i], cloth_id)}
          IN  /\ resp' = update_clothing(cloth_id, updates)
              /\ db' = IF updates.keys = {} \/ hits = {} THEN db
                       ELSE saved_catalogue([db EXCEPT ![SetMin(hits)] =
                                                dict_update(@, updates)])
    /\ UNCHANGED <<api_clock, cloudinary_on, api_read_only, model_dir, cloud_store, up>>
    /\ UNCHANGED not_api_vars

\* Lines 439-494 with delete_clothing_item (clothes_manager.py 165-191):
\* the item goes, its image at Cloudinary is destroyed, and the file
\* <cloth_id>.jpg of MODEL_DIR is removed
DeleteRequest ==
    /\ up # <<>>
    /\ \E cloth_id \in RequestIds :
          LET item == cloth_by_id(db, cloth_id)
              local_filename == cloth_id \o <<".jpg">>
          IN  /\ resp' = delete_clothing(cloth_id)
              /\ db' = IF item = NoItem THEN db
                       ELSE saved_catalogue(SelectSeq(db, LAMBDA c : ~Matches(c, cloth_id)))
              /\ cloud_store' = IF item # NoItem /\ HasCloudinary(item.image_url)
                                   /\ cloudinary_on
                                THEN cloud_store \ {item.image_url}
                                ELSE cloud_store
              /\ model_dir' = IF item # NoItem /\ ~api_read_only
                              THEN [f \in DOMAIN model_dir \ {local_filename} |-> model_dir[f]]
                              ELSE model_dir
    /\ UNCHANGED <<api_clock, cloudinary_on, api_read_only, up>>
    /\ UNCHANGED not_api_vars

(***************************************************************************)
(* AIService.analyze_image_style and its caller upload_clothing            *)
(***************************************************************************)
\* at most MaxKeys API keys are configured
MaxKeys == 3

Keys == 1..MaxKeys

\* self.gemini_models (lines 23-29)
gemini_models ==
    <<"gemini-3-flash", "gemini-2.5-flash", "gemini-2.5-flash-lite",
      "gemini-1.5-flash", "gemini-1.5-pro">>

\* list(set(all_keys)): distinct keys, in any order
KeyLists ==
    {ks \in UNION {[1..n -> Keys] : n \in 0..MaxKeys} :
        \A i, j \in DOMAIN ks : i # j => ks[i] # ks[j]}

NoError == [key |-> 0, model |-> "", msg |-> ""]

\* a value analyze_image_style returns: a dict (with or without the keys
\* "name" and "style") or another JSON value
Value(kind, name, style) == [kind |-> kind, name |-> name, style |-> style]

NoValue == Value("unset", "absent", "absent")

\* no attempt has yielded a parsed value
NoParsed == [at |-> 0, value |-> NoValue]

\* _mock_analysis (lines 62-69): always a dict with both keys, the fixed name
\* and the fixed style each followed by the reason
_mock_analysis(reason) ==
    Value("dict", <<"mock name", reason>>, <<"mock style", reason>>)

\* what json.loads(text) yields when text is JSON: an object, with or without
\* the two keys, or a list, a string, a number, null
ParsedValues ==
    {Value("dict", n, st) : n \in {"absent", "oracle"}, st \in {"absent", "oracle"}}
        \cup {Value(k, "absent", "absent") : k \in {"list", "str", "number", "null"}}

\* what goes wrong in one attempt: generate_content raises (not found, quota,
\* another error), response.text raises, or the text is not JSON
AttemptErrors == {"404", "429", "other", "no_text", "not_json"}

\* rotated_keys = keys[start:] + keys[:start]  (line 109, start counted from 0)
Rotate(keys, start) ==
    [i \in 1..Len(keys) |-> keys[((i - 1 + start) % Len(keys)) + 1]]

\* Lines 139-149: the error shown, made of the last error's text and key hint
ShortError(err) == <<err.msg, err.key, err.model>>

AnalyzeIdle ==
    /\ apc = "idle"
    /\ gemini_keys = <<>>
    /\ genai_module = FALSE
    /\ rotated_keys = <<>>
    /\ key_idx = 0
    /\ model_idx = 0
    /\ configured_key = 0
    /\ attempts = <<>>
    /\ errors_len = 0
    /\ last_error = NoError
    /\ analysis_result = NoValue
    /\ parsed = NoParsed
    /\ upload_status = "none"

\* Lines 76-109: without keys or without the module the mock is returned;
\* otherwise the rotation starts at a random key.
AnalyzeStart ==
    /\ apc = "start"
    /\ IF gemini_keys = <<>>
       THEN /\ analysis_result' = _mock_analysis(<<"no API key">>)
            /\ apc' = "returned"
            /\ UNCHANGED <<rotated_keys, key_idx, model_idx>>
       ELSE IF ~genai_module
       THEN /\ analysis_result' = _mock_analysis(<<"no module">>)
            /\ apc' = "returned"
            /\ UNCHANGED <<rotated_keys, key_idx, model_idx>>
       ELSE /\ \E start_key_idx \in 0..(Len(gemini_keys) - 1) :
                 rotated_keys' = Rotate(gemini_keys, start_key_idx)
            /\ key_idx' = 1
            /\ model_idx' = 1
            /\ apc' = "attempt"
            /\ UNCHANGED analysis_result
    /\ UNCHANGED <<gemini_keys, genai_module, configured_key, attempts, errors_len,
                   last_error, parsed, upload_status>>
    /\ UNCHANGED not_analyze_vars

\* the loops leaving a key at its first error that is not a 404
AdvanceBreak ==
    IF last_error'.msg = "404" /\ model_idx < Len(gemini_models)
    THEN /\ model_idx' = model_idx + 1
         /\ UNCHANGED key_idx
         /\ apc' = "attempt"
    ELSE IF key_idx < Len(rotated_keys)
    THEN /\ model_idx' = 1
         /\ key_idx' = key_idx + 1
         /\ apc' = "attempt"
    ELSE /\ UNCHANGED <<key_idx, model_idx>>
         /\ apc' = "all_failed"

\* the loops' next position after a failed attempt (lines 111, 114)
Advance ==
    IF model_idx < Len(gemini_models)
    THEN /\ model_idx' = model_idx + 1
         /\ UNCHANGED key_idx
         /\ apc' = "attempt"
    ELSE IF key_idx < Len(rotated_keys)
    THEN /\ model_idx' = 1
         /\ key_idx' = key_idx + 1
         /\ apc' = "attempt"
    ELSE /\ UNCHANGED <<key_idx, model_idx>>
         /\ apc' = "all_failed"

\* Lines 112-132, one pass of the inner loop: the parsed value is returned as
\* it is; an exception is recorded and the loops go on.
Attempt ==
    /\ apc = "attempt"
    /\ configured_key' = rotated_keys[key_idx]
    /\ attempts' = Append(attempts, <<rotated_keys[key_idx], gemini_models[model_idx]>>)
    /\ \/ \E result \in ParsedValues :
            /\ parsed' = [at |-> Len(attempts) + 1, value |-> result]
            /\ analysis_result' = result
            /\ apc' = "returned"
            /\ UNCHANGED <<key_idx, model_idx, errors_len, last_error>>
       \/ \E e \in AttemptErrors :
            /\ errors_len' = errors_len + 1
            /\ last_error' = [key |-> rotated_keys[key_idx],
                              model |-> gemini_models[model_idx], msg |-> e]
            /\ Advance
            /\ UNCHANGED <<analysis_result, parsed>>
    /\ UNCHANGED <<gemini_keys, genai_module, rotated_keys, upload_status>>
    /\ UNCHANGED not_analyze_vars

\* Lines 134-153: every attempt failed, the mock names the last error
AllFailed ==
    /\ apc = "all_failed"
    /\ analysis_result' =
          _mock_analysis(<<"Err", Len(gemini_keys),
                           IF errors_len > 0 THEN ShortError(last_error)
                           ELSE <<"Unknown Error">> >>)
    /\ apc' = "returned"
    /\ UNCHANGED <<gemini_keys, genai_module, rotated_keys, key_idx, model_idx,
                   configured_key, attempts, errors_len, last_error, parsed, upload_status>>
    /\ UNCHANGED not_analyze_vars

\* main.py lines 228-234, 262-267: the upload starts the analysis
UploadCallsAnalysis ==
    /\ apc = "idle"
    /\ upload_status = "none"
    /\ upload_status' = "awaiting"
    /\ apc' = "start"
    /\ UNCHANGED <<gemini_keys, genai_module, rotated_keys, key_idx, model_idx,
                   configured_key, attempts, errors_len, last_error, analysis_result, parsed>>
    /\ UNCHANGED not_analyze_vars

\* main.py lines 271-272 and 319-323: analysis_result.get("name", ...) and
\* .get("style", ...); only a dict has .get, anything else raises
\* AttributeError, which the handler turns into HTTP 500.
UploadReadsAnalysis ==
    /\ apc = "returned"
    /\ upload_status = "awaiting"
    /\ upload_status' = IF analysis_result.kind = "dict" THEN "read" ELSE "http_500"
    /\ apc' = "idle"
    /\ UNCHANGED <<gemini_keys, genai_module, rotated_keys, key_idx, model_idx,
                   configured_key, attempts, errors_len, last_error, analysis_result, parsed>>
    /\ UNCHANGED not_analyze_vars

(***************************************************************************)
(* AIService._try_on_gradio, its temporary files (lines 354-446)           *)
(*                                                                         *)
(* Invocations run in threads or processes of one host;                    *)
(* tempfile.gettempdir() is the same directory for all of them, and the    *)
(* file names are made of int(time.time()) alone.                          *)
(***************************************************************************)
\* the number of concurrent invocations
NumCalls == 2

\* the clock advances at most to MaxClock
MaxClock == 1

Calls == 1..NumCalls

NoPath == <<"", 0>>

NoFile == [kind |-> "absent", of |-> 0]

\* the content of a file: what it is and whose request it belongs to
File(kind, call) == [kind |-> kind, of |-> call]

Paths == {"proc_cloth", "person", "person_padded"} \X (0..MaxClock)

\* os.path.join(tempfile.gettempdir(), f"{prefix}_{int(time.time())}.jpg")
TempPath(prefix) == <<prefix, now>>

\* the value of the gradio variables while no invocation runs
GradioIdle ==
    /\ now = 0
    /\ tmpdir = [p \in Paths |-> NoFile]
    /\ gpc = [c \in Calls |-> "idle"]
    /\ proc_cloth_path = [c \in Calls |-> NoPath]
    /\ person_path = [c \in Calls |-> NoPath]
    /\ orig_pil = [c \in Calls |-> NoFile]
    /\ padded_person_path = [c \in Calls |-> NoPath]
    /\ sent = [c \in Calls |-> <<NoFile, NoFile>>]

\* time passes
Tick ==
    /\ now < MaxClock
    /\ now' = now + 1
    /\ UNCHANGED <<tmpdir, gpc, proc_cloth_path, person_path, orig_pil,
                   padded_person_path, sent>>
    /\ UNCHANGED not_gradio_vars

\* Lines 354-356: final_cloth.save(proc_cloth_path, ...)
SaveProcCloth(c) ==
    /\ gpc[c] = "save_cloth"
    /\ proc_cloth_path' = [proc_cloth_path EXCEPT ![c] = TempPath("proc_cloth")]
    /\ tmpdir' = [tmpdir EXCEPT ![TempPath("proc_cloth")] = File("cloth", c)]
    /\ gpc' = [gpc EXCEPT ![c] = "write_person"]
    /\ UNCHANGED <<now, person_path, orig_pil, padded_person_path, sent>>
    /\ UNCHANGED not_gradio_vars

\* Lines 368-370: person_bytes written to person_path
WritePerson(c) ==
    /\ gpc[c] = "write_person"
    /\ person_path' = [person_path EXCEPT ![c] = TempPath("person")]
    /\ tmpdir' = [tmpdir EXCEPT ![TempPath("person")] = File("person", c)]
    /\ gpc' = [gpc EXCEPT ![c] = "read_person"]
    /\ UNCHANGED <<now, proc_cloth_path, orig_pil, padded_person_path, sent>>
    /\ UNCHANGED not_gradio_vars

\* Lines 372-373: orig_pil = Image.open(person_path)
ReadPerson(c) ==
    /\ gpc[c] = "read_person"
    /\ orig_pil' = [orig_pil EXCEPT ![c] = tmpdir[person_path[c]]]
    /\ gpc' = [gpc EXCEPT ![c] = "save_padded"]
    /\ UNCHANGED <<now, tmpdir, proc_cloth_path, person_path, padded_person_path, sent>>
    /\ UNCHANGED not_gradio_vars

\* Lines 375-411: padded_pil (orig_pil, padded) saved to padded_person_path
SavePadded(c) ==
    /\ gpc[c] = "save_padded"
    /\ padded_person_path' = [padded_person_path EXCEPT ![c] = TempPath("person_padded")]
    /\ tmpdir' = [tmpdir EXCEPT ![TempPath("person_padded")] =
                                    File("person_padded", orig_pil[c].of)]
    /\ gpc' = [gpc EXCEPT ![c] = "process_dc"]
    /\ UNCHANGED <<now, proc_cloth_path, person_path, orig_pil, sent>>
    /\ UNCHANGED not_gradio_vars

\* the files handle_file(...) hands to client.predict: read when the call is made
Uploaded(c) == <<tmpdir[padded_person_path[c]], tmpdir[proc_cloth_path[c]]>>

\* Lines 424-433: client.predict(..., api_name="/process_dc") answers or raises
PredictDc(c) ==
    /\ gpc[c] = "process_dc"
    /\ sent' = [sent EXCEPT ![c] = Uploaded(c)]
    /\ \E raises \in BOOLEAN :
         gpc' = [gpc EXCEPT ![c] = IF raises THEN "process_hd" ELSE "done"]
    /\ UNCHANGED <<now, tmpdir, proc_cloth_path, person_path, orig_pil, padded_person_path>>
    /\ UNCHANGED not_gradio_vars

\* Lines 434-446: the second call, api_name="/process_hd"
PredictHd(c) ==
    /\ gpc[c] = "process_hd"
    /\ sent' = [sent EXCEPT ![c] = Uploaded(c)]
    /\ gpc' = [gpc EXCEPT ![c] = "done"]
    /\ UNCHANGED <<now, tmpdir, proc_cloth_path, person_path, orig_pil, padded_person_path>>
    /\ UNCHANGED not_gradio_vars

\* a request arrives: virtual_try_on reaches _try_on_gradio (line 736)
CallGradio(c) ==
    /\ gpc[c] = "idle"
    /\ gpc' = [gpc EXCEPT ![c] = "save_cloth"]
    /\ UNCHANGED <<now, tmpdir, proc_cloth_path, person_path, orig_pil,
                   padded_person_path, sent>>
    /\ UNCHANGED not_gradio_vars

\* no virtual_try_on state is used while the temporary files are studied
TryOnIdle ==
    /\ pc = "done"
    /\ person = None
    /\ cloth = "ok"
    /\ replicate_token = FALSE
    /\ method = "auto"
    /\ final_result_bytes = None
    /\ hist = <<>>
    /\ raised = {}
    /\ produced = {}
    /\ outcome = "running"
    /\ exc = ""
    /\ retval = None
    /\ wm_in = None
    /\ wm_env = "fine"

InitGradio ==
    /\ GradioIdle
    /\ TryOnIdle
    /\ AnalyzeIdle
    /\ RatioIdle
    /\ TrimIdle
    /\ KeyIdle
    /\ CategoryIdle
    /\ GarmentIdle
    /\ ManagerIdle
    /\ ValidateIdle
    /\ ApiIdle

NextGradio ==
    \/ Tick
    \/ \E c \in Calls : CallGradio(c)
    \/ \E c \in Calls : SaveProcCloth(c)
    \/ \E c \in Calls : WritePerson(c)
    \/ \E c \in Calls : ReadPerson(c)
    \/ \E c \in Calls : SavePadded(c)
    \/ \E c \in Calls : PredictDc(c)
    \/ \E c \in Calls : PredictHd(c)

\* requests served at the same time on one host
SpecGradio == InitGradio /\ [][NextGradio]_vars

\* C6, as claimed: the person image and the garment image handed to the
\* generative call of an invocation are those of its own request.
CexC6 ==
    \A c \in Calls :
        sent[c] # <<NoFile, NoFile>>
            => sent[c] = <<File("person_padded", c), File("cloth", c)>>

(***************************************************************************)
(* AIService.virtual_try_on                                                *)
(***************************************************************************)
Methods == {"auto", "overlay"}

ClothFiles == {"missing", "unusable", "ok"}

\* messages of the exceptions that leave virtual_try_on (lines 724, 519, 746)
ReplicateError == "Replicate Error"
VTONError == "VTON Error"
GenerationFailed == "generation failed"

\* What the Replicate service and the download of its URL do: client.run
\* raises, answers no URL, requests.get raises, answers a status other than
\* 200, or answers 200 with a body.
ReplicateOutcomes == {"run_raises", "no_output", "get_raises", "http_error", "downloaded"}

\* the body requests.get may answer
ReplicateBodies == {EmptyBytes} \cup Images("replicate")

\* leaving the function by an exception
Raise(msg, stage) ==
    /\ outcome' = "raised"
    /\ exc' = msg
    /\ raised' = raised \cup {stage}
    /\ pc' = "done"

\* Lines 674-730.  The stage runs when there is a token and method is not
\* 'overlay'; any exception inside is raised again as "Replicate Error".
ReplicateStage ==
    /\ UNCHANGED not_tryon_vars
    /\ pc = "replicate"
    /\ IF replicate_token /\ method # "overlay"
       THEN /\ hist' = Append(hist, "replicate")
            /\ \E r \in ReplicateOutcomes, body \in ReplicateBodies :
                 IF cloth = "missing" \/ r \in {"run_raises", "get_raises"}
                 THEN /\ Raise(ReplicateError, "replicate")
                      /\ UNCHANGED <<final_result_bytes, produced>>
                 ELSE /\ final_result_bytes' = IF r = "downloaded" THEN body ELSE None
                      /\ produced' = IF r = "downloaded" /\ body.kind = "image"
                                     THEN produced \cup {"replicate"} ELSE produced
                      /\ pc' = "gradio"
                      /\ UNCHANGED <<outcome, exc, raised>>
       ELSE /\ pc' = "gradio"
            /\ UNCHANGED <<hist, final_result_bytes, produced, outcome, exc, raised>>
    /\ UNCHANGED <<person, cloth, replicate_token, method, retval, wm_in, wm_env>>

\* the stage as it would be without `and not final_result_bytes` in its test
GradioStageUnguarded ==
    /\ UNCHANGED not_tryon_vars
    /\ pc = "gradio"
    /\ IF method # "overlay"
       THEN /\ hist' = Append(hist, "gradio")
            /\ \E env \in GradioEnvs :
                 LET gen_img == _try_on_gradio(person, cloth, env)
                 IN  IF gen_img.kind = "raise"
                     THEN /\ Raise(VTONError, "gradio")
                          /\ UNCHANGED <<final_result_bytes, produced>>
                     ELSE /\ final_result_bytes' =
                               IF Falsy(gen_img.value) THEN final_result_bytes
                               ELSE gen_img.value
                          /\ produced' = IF Falsy(gen_img.value) THEN produced
                                         ELSE produced \cup {"gradio"}
                          /\ pc' = "terminal"
                          /\ UNCHANGED <<outcome, exc, raised>>
       ELSE /\ pc' = "terminal"
            /\ UNCHANGED <<hist, final_result_bytes, produced, outcome, exc, raised>>
    /\ UNCHANGED <<person, cloth, replicate_token, method, retval, wm_in, wm_env>>

\* Lines 733-740.  _try_on_gradio is called when method is not 'overlay' and
\* there is no result yet; its exception is not caught here.
GradioStage ==
    /\ UNCHANGED not_tryon_vars
    /\ pc = "gradio"
    /\ IF method # "overlay" /\ Falsy(final_result_bytes)
       THEN /\ hist' = Append(hist, "gradio")
            /\ \E env \in GradioEnvs :
                 LET gen_img == _try_on_gradio(person, cloth, env)
                 IN  IF gen_img.kind = "raise"
                     THEN /\ Raise(VTONError, "gradio")
                          /\ UNCHANGED <<final_result_bytes, produced>>
                     ELSE /\ final_result_bytes' =
                               IF Falsy(gen_img.value) THEN final_result_bytes
                               ELSE gen_img.value
                          /\ produced' = IF Falsy(gen_img.value) THEN produced
                                         ELSE produced \cup {"gradio"}
                          /\ pc' = "terminal"
                          /\ UNCHANGED <<outcome, exc, raised>>
       ELSE /\ pc' = "terminal"
            /\ UNCHANGED <<hist, final_result_bytes, produced, outcome, exc, raised>>
    /\ UNCHANGED <<person, cloth, replicate_token, method, retval, wm_in, wm_env>>

\* the earlier behaviour the code abandoned: with no result, go on with the
\* person photo itself
TerminalCheckEcho ==
    /\ UNCHANGED not_tryon_vars
    /\ pc = "terminal"
    /\ final_result_bytes' = IF Falsy(final_result_bytes) THEN person
                             ELSE final_result_bytes
    /\ pc' = "resize"
    /\ UNCHANGED <<outcome, exc, raised>>
    /\ UNCHANGED <<person, cloth, replicate_token, method, hist, produced, retval,
                   wm_in, wm_env>>

\* a fallback stage that composes an overlay image when nothing was generated
TerminalCheckOverlay ==
    /\ UNCHANGED not_tryon_vars
    /\ pc = "terminal"
    /\ IF Falsy(final_result_bytes)
       THEN /\ final_result_bytes' = Img("overlay", TRUE, person.w, person.h)
            /\ hist' = Append(hist, "overlay")
       ELSE UNCHANGED <<final_result_bytes, hist>>
    /\ pc' = "resize"
    /\ UNCHANGED <<outcome, exc, raised>>
    /\ UNCHANGED <<person, cloth, replicate_token, method, produced, retval,
                   wm_in, wm_env>>

\* Lines 742-746.  There is no fallback stage: without a result the function
\* raises.
TerminalCheck ==
    /\ UNCHANGED not_tryon_vars
    /\ pc = "terminal"
    /\ IF Falsy(final_result_bytes)
       THEN Raise(GenerationFailed, "terminal")
       ELSE /\ pc' = "resize"
            /\ UNCHANGED <<outcome, exc, raised>>
    /\ UNCHANGED <<person, cloth, replicate_token, method, final_result_bytes, hist,
                   produced, retval, wm_in, wm_env>>

\* what the environment does inside the resize block: nothing wrong, or
\* resize()/save() raises (a mode JPEG cannot store, no memory)
ResizeEnvs == {"fine", "resize_error"}

\* Lines 750-767: the value of final_result_bytes after the try block.  Both
\* Image.open calls raise on bytes PIL cannot decode; every exception is
\* caught and printed, and the bytes stay as they were.
resize_to_original(person_img_bytes, res_bytes, env) ==
    IF ~person_img_bytes.ok \/ ~res_bytes.ok THEN res_bytes
    ELSE IF <<res_bytes.w, res_bytes.h>> = <<person_img_bytes.w, person_img_bytes.h>>
    THEN res_bytes
    ELSE IF env = "resize_error" THEN res_bytes
    ELSE [res_bytes EXCEPT !.w = person_img_bytes.w, !.h = person_img_bytes.h]

\* Lines 748-767.
ResizeStage ==
    /\ UNCHANGED not_tryon_vars
    /\ pc = "resize"
    /\ IF ~Falsy(final_result_bytes)
       THEN /\ hist' = Append(hist, "resize")
            /\ \E env \in ResizeEnvs :
                 final_result_bytes' = resize_to_original(person, final_result_bytes, env)
       ELSE UNCHANGED <<hist, final_result_bytes>>
    /\ pc' = "watermark"
    /\ UNCHANGED <<person, cloth, replicate_token, method, raised, produced, outcome,
                   exc, retval, wm_in, wm_env>>

\* Lines 769-772.
WatermarkStage ==
    /\ UNCHANGED not_tryon_vars
    /\ pc = "watermark"
    /\ IF ~Falsy(final_result_bytes)
       THEN /\ hist' = Append(hist, "watermark")
            /\ \E env \in WmEnvs :
                 LET r == _add_watermark(final_result_bytes, env)
                 IN  /\ wm_in' = final_result_bytes
                     /\ wm_env' = env
                     /\ IF r.raises
                        THEN /\ Raise("Watermark Error", "watermark")
                             /\ UNCHANGED final_result_bytes
                        ELSE /\ final_result_bytes' = r.value
                             /\ pc' = "return"
                             /\ UNCHANGED <<outcome, exc, raised>>
       ELSE /\ pc' = "return"
            /\ UNCHANGED <<hist, final_result_bytes, wm_in, wm_env, outcome, exc, raised>>
    /\ UNCHANGED <<person, cloth, replicate_token, method, produced, retval>>

\* Line 774.
Return ==
    /\ UNCHANGED not_tryon_vars
    /\ pc = "return"
    /\ retval' = final_result_bytes
    /\ outcome' = "returned"
    /\ pc' = "done"
    /\ UNCHANGED <<person, cloth, replicate_token, method, final_result_bytes, hist,
                   raised, produced, exc, wm_in, wm_env>>

\* The state at the call: any person photo, any cloth file, with or without a
\* token, either method.
Init ==
    /\ pc = "replicate"
    /\ person \in Images("person")
    /\ cloth \in ClothFiles
    /\ replicate_token \in BOOLEAN
    /\ method \in Methods
    /\ final_result_bytes = None
    /\ hist = <<>>
    /\ raised = {}
    /\ produced = {}
    /\ outcome = "running"
    /\ exc = ""
    /\ retval = None
    /\ wm_in = None
    /\ wm_env = "fine"
    /\ GradioIdle
    /\ AnalyzeIdle
    /\ RatioIdle
    /\ TrimIdle
    /\ KeyIdle
    /\ CategoryIdle
    /\ GarmentIdle
    /\ ManagerIdle
    /\ ValidateIdle
    /\ ApiIdle

Next ==
    \/ ReplicateStage
    \/ GradioStage
    \/ TerminalCheck
    \/ ResizeStage
    \/ WatermarkStage
    \/ Return

Spec == Init /\ [][Next]_vars

(***************************************************************************)
(* Claims about virtual_try_on, checked under Spec                         *)
(***************************************************************************)
\* vocabulary of the claims: the stages entered, whether a service call
\* raised, the position of a stage in the claimed order
StagesEntered == {hist[i] : i \in DOMAIN hist}

ServiceRaised == raised \cap {"replicate", "gradio"} # {}

Rank(stage) ==
    CASE stage = "replicate" -> 1
      [] stage = "gradio" -> 2
      [] stage = "resize" -> 3
      [] stage = "watermark" -> 4
      [] OTHER -> 0

\* C1: when no stage produced an image and no service call raised, the
\* invocation ends by the "generation failed" exception; whatever it returns
\* is an image that is not the person photo (never None, never the input).
ThmC1 ==
    /\ (pc = "done" /\ produced = {} /\ ~ServiceRaised)
         => (outcome = "raised" /\ exc = GenerationFailed)
    /\ outcome = "returned" => (retval.kind = "image" /\ retval.src # "person")

\* Gradio ran without a token, answered nothing, and the invocation ended by
\* the "generation failed" exception.
WitC1 ==
    /\ pc = "done"
    /\ ~replicate_token
    /\ hist = <<"gradio">>
    /\ produced = {}
    /\ exc = GenerationFailed

CexC3 ==
    outcome = "raised" => exc = GenerationFailed

\* C4: the stages are entered in the order Replicate, Gradio, resize,
\* watermark, each at most once; Gradio is not entered after Replicate
\* produced an image nor with method='overlay'; a returned image went through
\* resize and then watermark as the last two stages.
ThmC4 ==
    /\ \A i, j \in DOMAIN hist : i < j => Rank(hist[i]) < Rank(hist[j])
    /\ \A i \in DOMAIN hist : Rank(hist[i]) > 0
    /\ "gradio" \in StagesEntered => (method # "overlay" /\ "replicate" \notin produced)
    /\ outcome = "returned" =>
          /\ Len(hist) >= 2
          /\ hist[Len(hist) - 1] = "resize"
          /\ hist[Len(hist)] = "watermark"

\* all four stages ran: Replicate gave nothing, Gradio gave the image returned
WitC4 ==
    /\ outcome = "returned"
    /\ hist = <<"replicate", "gradio", "resize", "watermark">>
    /\ retval.src = "gradio"

\* C5, as claimed (for a person image PIL decodes): a returned image has the
\* person image's width and height.
CexC5 ==
    (outcome = "returned" /\ person.ok)
        => (retval.w = person.w /\ retval.h = person.h)

\* C7: the _add_watermark call does not raise, and its result is the stamped
\* image or its argument unchanged.
ThmC7 ==
    "watermark" \in StagesEntered =>
        /\ "watermark" \notin raised
        /\ pc \in {"return", "done"}
        /\ \/ final_result_bytes = wm_in
           \/ wm_in.ok /\ final_result_bytes = [wm_in EXCEPT !.stamped = TRUE]

\* a 1x1 image with no usable font: the call returned its argument
WitC7 ==
    /\ pc = "return"
    /\ wm_in.ok
    /\ wm_in.w = 1
    /\ wm_in.h = 1
    /\ wm_env = "no_font"
    /\ final_result_bytes = wm_in

\* C8, as claimed: no image is returned for a person image that cannot be
\* decoded.
CexC8 ==
    ~person.ok => outcome # "returned"

(***************************************************************************)
(* One upload and its call of analyze_image_style                          *)
(***************************************************************************)
InitAnalyze ==
    /\ apc = "idle"
    /\ gemini_keys \in KeyLists
    /\ genai_module \in BOOLEAN
    /\ rotated_keys = <<>>
    /\ key_idx = 0
    /\ model_idx = 0
    /\ configured_key = 0
    /\ attempts = <<>>
    /\ errors_len = 0
    /\ last_error = NoError
    /\ analysis_result = NoValue
    /\ parsed = NoParsed
    /\ upload_status = "none"
    /\ TryOnIdle
    /\ GradioIdle
    /\ RatioIdle
    /\ TrimIdle
    /\ KeyIdle
    /\ CategoryIdle
    /\ GarmentIdle
    /\ ManagerIdle
    /\ ValidateIdle
    /\ ApiIdle

NextAnalyze ==
    \/ UploadCallsAnalysis
    \/ AnalyzeStart
    \/ Attempt
    \/ AllFailed
    \/ UploadReadsAnalysis

SpecAnalyze == InitAnalyze /\ [][NextAnalyze]_vars

\* C9, as claimed: whatever the vision call does, analyze_image_style returns
\* a dictionary and the upload that called it does not fail.
CexC9 ==
    /\ apc = "returned" => analysis_result.kind = "dict"
    /\ upload_status # "http_500"

\* C20: in a call that has keys and the module, the k-th attempt uses the
\* key (start + (k - 1) div |models|) mod |keys| of the key list, for one
\* start index, and the model ((k - 1) mod |models|) of the model list; no
\* pair is attempted twice; a parsed response is returned as the result, was
\* preceded by failures only and is followed by no attempt; when the call
\* returns without one, every one of the |keys| x |models| attempts failed
\* and the result is the mock made from the last attempt's error, 404 or
\* not.
ThmC20 ==
    LET n == Len(gemini_keys)
        m == Len(gemini_models)
    IN  /\ (attempts # <<>>) =>
              \E start \in 0..(n - 1) :
                  \A k \in DOMAIN attempts :
                      attempts[k] = <<gemini_keys[((start + (k - 1) \div m) % n) + 1],
                                      gemini_models[((k - 1) % m) + 1]>>
        /\ \A i, j \in DOMAIN attempts : i # j => attempts[i] # attempts[j]
        /\ parsed # NoParsed =>
              /\ parsed.at = Len(attempts)
              /\ errors_len = Len(attempts) - 1
              /\ analysis_result = parsed.value
        /\ (apc = "returned" /\ attempts # <<>> /\ parsed = NoParsed) =>
              /\ Len(attempts) = n * m
              /\ errors_len = n * m
              /\ <<last_error.key, last_error.model>> = attempts[n * m]
              /\ analysis_result = _mock_analysis(<<"Err", n, ShortError(last_error)>>)

\* three keys, the rotation starting at the second: all fifteen attempts
\* failed, the last with a 404, and the mock was returned
WitC20 ==
    /\ apc = "returned"
    /\ Len(gemini_keys) = 3
    /\ rotated_keys = <<gemini_keys[2], gemini_keys[3], gemini_keys[1]>>
    /\ Len(attempts) = 15
    /\ last_error.msg = "404"
    /\ analysis_result.kind = "dict"

(***************************************************************************)
(* _ensure_aspect_ratio applied to any image and any ratio                 *)
(***************************************************************************)
InitRatio ==
    /\ target_ratio \in Ratios
    /\ ar_calls = 0
    /\ ar_prev = NoPic
    /\ ar_img \in Pics
    /\ ar_offset = <<0, 0>>
    /\ TryOnIdle
    /\ GradioIdle
    /\ AnalyzeIdle
    /\ TrimIdle
    /\ KeyIdle
    /\ CategoryIdle
    /\ GarmentIdle
    /\ ManagerIdle
    /\ ValidateIdle
    /\ ApiIdle

NextRatio ==
    \/ EnsureAspectRatio

SpecRatio == InitRatio /\ [][NextRatio]_vars

\* C10, as claimed (for an image PIL decodes): the output's width / height
\* differs from target_ratio by at most 0.01.
CexC10 ==
    (ar_calls >= 1 /\ ar_prev.ok) =>
        100 * Abs(ar_img.w * target_ratio[2] - target_ratio[1] * ar_img.h)
            <= ar_img.h * target_ratio[2]

\* C10, amended: a decodable image within 0.01 of the ratio is returned as it
\* is; otherwise one side is padded to the truncated exact size, w' =
\* floor(h * r) or h' = floor(w / r), and then |w'/h' - r| < max(1, r) / h'.
ThmC10 ==
    (ar_calls >= 1 /\ ar_prev.ok) =>
        LET p == target_ratio[1]
            q == target_ratio[2]
            w == ar_prev.w
            h == ar_prev.h
        IN  \/ /\ 100 * Abs(w * q - p * h) < h * q
               /\ ar_img = ar_prev
            \/ /\ w * q < p * h
               /\ ar_img.h = h
               /\ ar_img.w * q <= h * p
               /\ h * p < (ar_img.w + 1) * q
               /\ Abs(ar_img.w * q - p * ar_img.h) < q
            \/ /\ w * q > p * h
               /\ ar_img.w = w
               /\ ar_img.h * p <= w * q
               /\ w * q < (ar_img.h + 1) * p
               /\ Abs(ar_img.w * q - p * ar_img.h) < p

\* a 10x10 image padded for 3/4 becomes 10x13, whose ratio is off by 0.019
WitC10 ==
    /\ ar_calls = 1
    /\ target_ratio = <<3, 4>>
    /\ ar_prev = Pic(TRUE, 10, 10)
    /\ ar_img = Pic(TRUE, 10, 13)

\* C11, as claimed (for an image PIL decodes): within 0.01 of the ratio the
\* input is returned; otherwise exactly one side grows, the width of a too
\* narrow image and the height of a too wide one, the other side is kept,
\* and the original is pasted at floor((new - old) / 2).
CexC11 ==
    (ar_calls >= 1 /\ ar_prev.ok) =>
        LET p == target_ratio[1]
            q == target_ratio[2]
            w == ar_prev.w
            h == ar_prev.h
        IN  \/ /\ WithinTolerance(w, h, p, q)
               /\ ar_img = ar_prev
            \/ /\ ~WithinTolerance(w, h, p, q)
               /\ w * q < p * h
               /\ ar_img.w > w
               /\ ar_img.h = h
               /\ ar_offset = <<(ar_img.w - w) \div 2, 0>>
            \/ /\ ~WithinTolerance(w, h, p, q)
               /\ w * q > p * h
               /\ ar_img.w = w
               /\ ar_img.h > h
               /\ ar_offset = <<0, (ar_img.h - h) \div 2>>

\* C11, amended: _ensure_aspect_ratio never crops.  Within 0.01 of the ratio
\* the input is returned; otherwise at most one side grows (none when the
\* truncated exact size is the old size), the width of a too narrow image
\* and the height of a too wide one, the other side is kept, no side
\* shrinks, and the original is pasted at floor((new - old) / 2), so that the
\* two padding strips differ by at most one pixel.
ThmC11 ==
    (ar_calls >= 1 /\ ar_prev.ok) =>
        LET p == target_ratio[1]
            q == target_ratio[2]
            w == ar_prev.w
            h == ar_prev.h
            before == ar_offset[1] + ar_offset[2]
            after == (ar_img.w - w) + (ar_img.h - h) - before
        IN  /\ ar_img.w >= w
            /\ ar_img.h >= h
            /\ after - before \in {0, 1}
            /\ \/ /\ WithinTolerance(w, h, p, q)
                  /\ ar_img = ar_prev
               \/ /\ ~WithinTolerance(w, h, p, q)
                  /\ w * q < p * h
                  /\ ar_img.h = h
                  /\ ar_offset = <<(ar_img.w - w) \div 2, 0>>
               \/ /\ ~WithinTolerance(w, h, p, q)
                  /\ w * q > p * h
                  /\ ar_img.w = w
                  /\ ar_offset = <<0, (ar_img.h - h) \div 2>>

\* a 4x12 image padded for 3/4 becomes 9x12 with strips of 2 and 3 pixels
WitC11 ==
    /\ ar_calls = 1
    /\ target_ratio = <<3, 4>>
    /\ ar_prev = Pic(TRUE, 4, 12)
    /\ ar_img = Pic(TRUE, 9, 12)
    /\ ar_offset = <<2, 0>>

\* C12: applying _ensure_aspect_ratio a second time with the same ratio
\* leaves the width and the height of the first result as they are.
ThmC12 ==
    ar_calls = 2 => (ar_img.w = ar_prev.w /\ ar_img.h = ar_prev.h)

\* 10x13, the result of padding 10x10 for 3/4, is outside the tolerance: the
\* second application pads it again, to the same 10x13
WitC12 ==
    /\ ar_calls = 2
    /\ target_ratio = <<3, 4>>
    /\ ar_prev = Pic(TRUE, 10, 13)
    /\ ar_img = Pic(TRUE, 10, 13)
    /\ ar_offset = <<0, 0>>

(***************************************************************************)
(* trim applied to any bitmap                                              *)
(***************************************************************************)
InitTrim ==
    /\ trim_im \in Bitmaps(MaxTrimPixels, TrimColours)
    /\ trim_out = NoBitmap
    /\ TryOnIdle
    /\ GradioIdle
    /\ AnalyzeIdle
    /\ RatioIdle
    /\ KeyIdle
    /\ CategoryIdle
    /\ GarmentIdle
    /\ ManagerIdle
    /\ ValidateIdle
    /\ ApiIdle

NextTrim ==
    \/ Trim

SpecTrim == InitTrim /\ [][NextTrim]_vars

\* the pixels of the bitmap that differ from the pixel at (0, 0) by more
\* than 100 in some band
Differing(im) ==
    {c \in Coords(im.w, im.h) :
        \E i \in 1..3 : Abs(im.px[c][i] - im.px[<<0, 0>>][i]) > 100}

\* C13: trim takes the pixel at (0, 0) as background.  When no pixel differs
\* from it beyond the tolerance the bitmap is returned as it is; otherwise
\* the result is the part of the bitmap inside the smallest box that holds
\* every differing pixel.  The result is at least 1x1.
ThmC13 ==
    trim_out # NoBitmap =>
        LET D == Differing(trim_im)
        IN  /\ trim_out.w >= 1
            /\ trim_out.h >= 1
            /\ D = {} => trim_out = trim_im
            /\ D # {} =>
                \E left \in 0..(trim_im.w - 1), upper \in 0..(trim_im.h - 1) :
                    /\ \A c \in D : /\ left <= c[1]
                                    /\ c[1] < left + trim_out.w
                                    /\ upper <= c[2]
                                    /\ c[2] < upper + trim_out.h
                    /\ \E c \in D : c[1] = left
                    /\ \E c \in D : c[1] = left + trim_out.w - 1
                    /\ \E c \in D : c[2] = upper
                    /\ \E c \in D : c[2] = upper + trim_out.h - 1
                    /\ \A c \in Coords(trim_out.w, trim_out.h) :
                          trim_out.px[c] = trim_im.px[<<c[1] + left, c[2] + upper>>]

\* a 3x2 bitmap on white whose only differing pixels are in the middle
\* column is cut to that column; the grey pixel, 100 below white, is inside
\* the tolerance
WitC13 ==
    /\ trim_im.w = 3
    /\ trim_im.h = 2
    /\ trim_im.px[<<0, 0>>] = <<255, 255, 255>>
    /\ trim_im.px[<<2, 0>>] = <<155, 155, 155>>
    /\ Differing(trim_im) = {<<1, 0>>, <<1, 1>>}
    /\ trim_out.w = 1
    /\ trim_out.h = 2

(***************************************************************************)
(* _remove_background_simple applied to any raster                         *)
(***************************************************************************)
InitKey ==
    /\ rb_calls = 0
    /\ rb_prev = NoRaster
    /\ rb_img \in Rasters
    /\ TryOnIdle
    /\ GradioIdle
    /\ AnalyzeIdle
    /\ RatioIdle
    /\ TrimIdle
    /\ CategoryIdle
    /\ GarmentIdle
    /\ ManagerIdle
    /\ ValidateIdle
    /\ ApiIdle

NextKey ==
    \/ RemoveBackground

SpecKey == InitKey /\ [][NextKey]_vars

\* the alpha a pixel of the raster has: 255 in a mode without alpha
AlphaOf(img, c) == IF img.mode = "RGBA" THEN img.px[c][4] ELSE 255

\* C14: _remove_background_simple keeps the size and maps each pixel by
\* itself: a pixel whose R, G and B are all above 200 becomes
\* (255, 255, 255, 0), every other pixel keeps its R, G, B and alpha.
ThmC14 ==
    (rb_calls >= 1 /\ rb_prev.ok) =>
        /\ rb_img.w = rb_prev.w
        /\ rb_img.h = rb_prev.h
        /\ \A c \in Coords(rb_prev.w, rb_prev.h) :
              LET old == rb_prev.px[c]
              IN  IF old[1] > 200 /\ old[2] > 200 /\ old[3] > 200
                  THEN rb_img.px[c] = <<255, 255, 255, 0>>
                  ELSE rb_img.px[c] = <<old[1], old[2], old[3], AlphaOf(rb_prev, c)>>

\* a 2x1 RGB raster with a pixel just above the threshold and a pixel with
\* one band at the threshold: the first is keyed, the second kept opaque
WitC14 ==
    /\ rb_calls = 1
    /\ rb_prev.ok
    /\ rb_prev.mode = "RGB"
    /\ rb_prev.w = 2
    /\ rb_prev.px[<<0, 0>>] = <<201, 201, 201>>
    /\ rb_prev.px[<<1, 0>>] = <<201, 201, 200>>
    /\ rb_img.px[<<0, 0>>] = <<255, 255, 255, 0>>
    /\ rb_img.px[<<1, 0>>] = <<201, 201, 200, 255>>

\* C15: applying _remove_background_simple to its own result changes no
\* pixel.
ThmC15 ==
    rb_calls = 2 => rb_img = rb_prev

\* the second application to a raster in which the first keyed a pixel and
\* kept a half transparent one
WitC15 ==
    /\ rb_calls = 2
    /\ rb_prev.ok
    /\ rb_prev.w = 2
    /\ rb_prev.px[<<0, 0>>] = <<255, 255, 255, 0>>
    /\ rb_prev.px[<<1, 0>>] = <<200, 201, 201, 128>>
    /\ rb_img.px = rb_prev.px

(***************************************************************************)
(* The category derived for any display name and any category argument     *)
(***************************************************************************)
InitCategory ==
    /\ cloth_name \in ClothNames
    /\ category \in CategoryArgs
    /\ ootd_category = ""
    /\ replicate_category = ""
    /\ TryOnIdle
    /\ GradioIdle
    /\ AnalyzeIdle
    /\ RatioIdle
    /\ TrimIdle
    /\ KeyIdle
    /\ GarmentIdle
    /\ ManagerIdle
    /\ ValidateIdle
    /\ ApiIdle

NextCategory ==
    \/ SendReplicate
    \/ DetermineCategory

SpecCategory == InitCategory /\ [][NextCategory]_vars

\* the display name has the character for skirt or the two for dress
NamesDress ==
    \/ \E i \in DOMAIN cloth_name : cloth_name[i] = "qun"
    \/ \E i \in DOMAIN cloth_name :
          /\ i + 1 \in DOMAIN cloth_name
          /\ cloth_name[i] = "yang"
          /\ cloth_name[i + 1] = "zhuang"

\* the display name has the character for trousers
NamesTrousers == \E i \in DOMAIN cloth_name : cloth_name[i] = "ku"

\* C16: the category sent is one of Upper-body, Lower-body and Dress.  A
\* non-empty category argument decides it whatever the display name is, an
\* unrecognised one giving Upper-body; with no category, a name with the
\* skirt or dress keyword gives Dress, otherwise one with the trousers
\* keyword gives Lower-body, otherwise Upper-body.
ThmC16 ==
    ootd_category # "" =>
        /\ ootd_category \in {"Upper-body", "Lower-body", "Dress"}
        /\ (category.kind = "str" /\ category.s # "") =>
              /\ ootd_category = "Lower-body" <=>
                    category.s \in {"Lower-body", "LOWER_BODY", "lower_body", "Bottom"}
              /\ ootd_category = "Dress" <=>
                    category.s \in {"Dress", "dress", "Dresses", "Whole-body", "whole_body"}
        /\ (category.kind = "None" \/ category.s = "") =>
              ootd_category = IF NamesDress THEN "Dress"
                              ELSE IF NamesTrousers THEN "Lower-body"
                              ELSE "Upper-body"

\* a name with both the trousers and the skirt character and no category
\* gives Dress
WitC16 ==
    /\ category = NoCategory
    /\ cloth_name = <<"ku", "qun">>
    /\ ootd_category = "Dress"

\* the garment class a category sent to either service stands for
GarmentClass(cat) ==
    CASE cat \in {"upper_body", "Upper-body"} -> "upper body"
      [] cat \in {"lower_body", "Lower-body"} -> "lower body"
      [] cat \in {"dresses", "Dress"} -> "dress"
      [] OTHER -> "none"

\* C25, as claimed: the category sent to Replicate and the one sent to
\* OOTDiffusion stand for the same garment class, and a garment stored as
\* Lower-body or Dress is sent to neither as an upper-body garment.
CexC25 ==
    /\ (replicate_category \notin {"", "raised"} /\ ootd_category # "") =>
          GarmentClass(replicate_category) = GarmentClass(ootd_category)
    /\ (category.kind = "str" /\ category.s \in {"Lower-body", "Dress"}) =>
          /\ replicate_category # "" => GarmentClass(replicate_category) # "upper body"
          /\ ootd_category # "" => GarmentClass(ootd_category) # "upper body"

(***************************************************************************)
(* The garment standardised for any garment, category and height_ratio     *)
(***************************************************************************)
InitGarment ==
    /\ person_size \in PersonSizes
    /\ c_size \in GarmentSizes
    /\ g_category \in OotdCategories
    /\ height_ratio \in HeightRatios
    /\ g_undershoot \in BOOLEAN
    /\ c_img_resized = NoSize
    /\ TryOnIdle
    /\ GradioIdle
    /\ AnalyzeIdle
    /\ RatioIdle
    /\ TrimIdle
    /\ KeyIdle
    /\ CategoryIdle
    /\ ManagerIdle
    /\ ValidateIdle
    /\ ApiIdle

NextGarment ==
    \/ StandardizeGarment

SpecGarment == InitGarment /\ [][NextGarment]_vars

\* C17, as claimed: with a height_ratio in (0, 1] the garment is sized to
\* the person's height times the ratio, within a pixel, and its width
\* follows the garment's own aspect ratio, within a pixel.
CexC17 ==
    (c_img_resized # NoSize /\ height_ratio # NoRatio) =>
        LET p == height_ratio[1]
            q == height_ratio[2]
        IN  /\ Abs(c_img_resized.new_h * q - person_size[2] * p) <= q
            /\ Abs(c_img_resized.new_w * c_size[2] - c_img_resized.new_h * c_size[1])
                  <= c_size[2]

\* C26, as claimed: whatever the garment and the category, the resized
\* garment has sides of at least 1, is no wider than 90% of the canvas, and
\* lies inside the canvas where it is pasted.
CexC26 ==
    c_img_resized # NoSize =>
        /\ c_img_resized.new_w >= 1
        /\ c_img_resized.new_h >= 1
        /\ 10 * c_img_resized.new_w <= 9 * canvas_w
        /\ 0 <= c_img_resized.paste_x
        /\ c_img_resized.paste_x + c_img_resized.new_w <= canvas_w
        /\ 0 <= c_img_resized.paste_y
        /\ c_img_resized.paste_y + c_img_resized.new_h <= canvas_h

\* the same without the two lower bounds on the sides
C26Otherwise ==
    c_img_resized # NoSize =>
        /\ 10 * c_img_resized.new_w <= 9 * canvas_w
        /\ 0 <= c_img_resized.paste_x
        /\ c_img_resized.paste_x + c_img_resized.new_w <= canvas_w
        /\ 0 <= c_img_resized.paste_y
        /\ c_img_resized.paste_y + c_img_resized.new_h <= canvas_h

\* what C27 says of a lower-body garment, but for the width after scaling
LowerBodyPlaced ==
    LET c_w == c_size[1]
        c_h == c_size[2]
        r == c_img_resized
    IN  /\ 20 * c_w > 11 * c_h =>
              /\ r.src_w = (11 * c_h) \div 20
              /\ r.left = (c_w - r.src_w) \div 2
              /\ r.left + r.src_w <= c_w
        /\ 20 * c_w <= 11 * c_h => (r.src_w = c_w /\ r.left = 0)
        /\ r.new_h = (92 * canvas_h) \div 100
        /\ r.paste_x = (canvas_w - r.new_w) \div 2
        /\ r.paste_y + r.new_h = canvas_h
        /\ ~r.capped

InitManager ==
    /\ given_file \in {AbsentFile, CorruptFile} \cup {JsonFile(c) : c \in SeedCatalogues}
    /\ fallback_file \in {AbsentFile} \cup {JsonFile(c) : c \in FallbackCatalogues}
    /\ read_only \in BOOLEAN
    /\ data_file = ""
    /\ fresh = (given_file = AbsentFile)
    /\ returned_ids = <<>>
    /\ count_before = 0
    /\ add_args = NoArgs
    /\ edits = <<>>
    /\ last_call = NoCall
    /\ TryOnIdle
    /\ GradioIdle
    /\ AnalyzeIdle
    /\ RatioIdle
    /\ TrimIdle
    /\ KeyIdle
    /\ CategoryIdle
    /\ GarmentIdle
    /\ ValidateIdle
    /\ ApiIdle

NextManager ==
    \/ Construct
    \/ AddClothingItem
    \/ DeleteClothingItem
    \/ UpdateClothingItem

SpecManager == InitManager /\ [][NextManager]_vars

\* C18, as claimed: a manager made on a data file that does not exist (and
\* with no catalogue at ../model/clothes.json to fall back to) returns
\* "001", "002", ... from its successive adds, as long as nothing is
\* deleted or updated.
CexC18 ==
    (fresh /\ data_file = "given" /\ edits = <<>>) =>
        \A i \in DOMAIN returned_ids : returned_ids[i] = <<"0", "0", DigitChars[i + 1]>>

\* C19, as claimed: after add_clothing_item returned an id, get_all_clothes
\* has one item more than before the call and get_cloth_by_id of that id
\* gives an item with the name, height_range, gender and style supplied.
CexC19 ==
    last_call.op = "add" =>
        LET item == get_cloth_by_id(returned_ids[Len(returned_ids)])
        IN  /\ Len(get_all_clothes) = count_before + 1
            /\ item # NoItem
            /\ <<item.name, item.height_range, item.gender, item.style>> = add_args

\* C23: in a manager made on a data file that did not exist, whatever items
\* are added, deleted and updated without a new 'id', the stored items have
\* pairwise distinct ids.
ThmC23 ==
    (fresh /\ data_file = "given" /\ \A k \in DOMAIN edits : edits[k] # "update id") =>
        \A i, j \in DOMAIN get_all_clothes :
            get_all_clothes[i].id = get_all_clothes[j].id => i = j

\* two items are stored after three adds and a delete, and one of them was
\* updated: add_clothing_item has returned "001" twice
WitC23 ==
    /\ fresh
    /\ data_file = "given"
    /\ returned_ids = <<<<"0", "0", "1">>, <<"0", "0", "1">>, <<"0", "0", "2">>>>
    /\ edits = <<"delete", "update">>
    /\ Len(get_all_clothes) = 2
    /\ \E i \in DOMAIN get_all_clothes : get_all_clothes[i].name = "Renamed"

\* C24, as claimed: delete and update leave the items that cloth_id does
\* not name as they were and in the same order; with no item named they
\* return False and do not write; with an item named they return True,
\* after delete no item named is left and get_cloth_by_id gives None, and
\* after update the first item named has the values of updates for the keys
\* of updates and is otherwise as before.
CexC24 ==
    last_call.op \in {"delete", "update"} =>
        LET before == last_call.before
            after == get_all_clothes
            cloth_id == last_call.cloth_id
            hits == {i \in DOMAIN before : Matches(before[i], cloth_id)}
            Others(clothes) == SelectSeq(clothes, LAMBDA c : ~Matches(c, cloth_id))
        IN  /\ hits = {} =>
                /\ ~last_call.result
                /\ ~last_call.saved
                /\ after = before
            /\ (hits # {} /\ last_call.op = "delete") =>
                /\ last_call.result
                /\ after = Others(before)
                /\ get_cloth_by_id(cloth_id) = NoItem
            /\ (hits # {} /\ last_call.op = "update") =>
                /\ last_call.result
                /\ after = [before EXCEPT ![SetMin(hits)] =
                                dict_update(@, last_call.updates)]

\* the same where the file system takes the write
C24WhenWritable == ~read_only => CexC24

(***************************************************************************)
(* validate_and_crop_user_photo for any photo and any answer of the oracle *)
(***************************************************************************)
InitValidate ==
    /\ photo \in Photos
    /\ has_keys \in BOOLEAN
    /\ has_genai \in BOOLEAN
    /\ answer \in OracleAnswers
    /\ verdict = NoVerdict
    /\ TryOnIdle
    /\ GradioIdle
    /\ AnalyzeIdle
    /\ RatioIdle
    /\ TrimIdle
    /\ KeyIdle
    /\ CategoryIdle
    /\ GarmentIdle
    /\ ManagerIdle
    /\ ApiIdle

NextValidate ==
    \/ ValidatePhoto

SpecValidate == InitValidate /\ [][NextValidate]_vars

\* C21: a verdict of valid carries the submitted photo as it was, a verdict
\* of not valid carries None.
ThmC21 ==
    verdict # NoVerdict =>
        /\ verdict.valid => verdict.processed_image = photo
        /\ ~verdict.valid => verdict.processed_image = None

\* the oracle's object says valid, inside a fence: the undecodable photo is
\* handed back as it is
WitC21 ==
    /\ photo = Img("user", FALSE, 1, 1)
    /\ answer = [kind |-> "text", text |-> <<"fence", "obj_true", "fence">>]
    /\ verdict.valid
    /\ verdict.processed_image = photo

\* the oracle's answer was obtained, is a JSON object, and says valid
DeclaresValid ==
    /\ answer.kind = "text"
    /\ \E i \in DOMAIN answer.text :
          /\ answer.text[i] \in {"obj_true", "obj_str"}
          /\ \A j \in DOMAIN answer.text : j # i => answer.text[j] \notin ObjectTokens

\* C22, as claimed: the verdict is valid only when there is a key, the
\* module loads, and the oracle's answer was obtained and declares the
\* photo valid.
CexC22 ==
    (verdict # NoVerdict /\ verdict.valid) =>
        /\ has_keys
        /\ has_genai
        /\ DeclaresValid

(***************************************************************************)
(* A server taking upload, try-on, update and delete requests              *)
(***************************************************************************)
InitApi ==
    /\ api_clock = 0
    /\ cloudinary_on \in BOOLEAN
    /\ api_read_only \in BOOLEAN
    /\ \E seed \in SeedDeployments :
          /\ db = seed.db
          /\ model_dir = seed.dir
    /\ cloud_store = {}
    /\ up = [r \in Uploads |-> UploadState("idle", <<>>, <<>>)]
    /\ resp = NoResponse
    /\ TryOnIdle
    /\ GradioIdle
    /\ AnalyzeIdle
    /\ RatioIdle
    /\ TrimIdle
    /\ KeyIdle
    /\ CategoryIdle
    /\ GarmentIdle
    /\ ManagerIdle
    /\ ValidateIdle

NextApi ==
    \/ ApiTick
    \/ \E r \in Uploads : UploadReceive(r)
    \/ \E r \in Uploads : UploadStore(r)
    \/ TryOnRequest
    \/ UpdateRequest
    \/ DeleteRequest

SpecApi == InitApi /\ [][NextApi]_vars

\* C28, as claimed: a try-on of an item that an upload created with a
\* non-empty image_url, and that is still in the catalogue, does not fail
\* for want of the garment's image.
CexC28 ==
    (/\ resp.endpoint = "try_on"
     /\ resp.existed
     /\ \E r \in Uploads :
           /\ up[r].at = "done"
           /\ up[r].image_url # <<>>
           /\ cloth_by_id(db, resp.cloth_id) = Stored(up[r].new_id, up[r].image_url))
        => resp.detail # "Clothing image file not found"

\* C29, as claimed: a try-on, an update and a delete of an item that is not
\* in the catalogue are answered with status 404.
CexC29 ==
    (resp.endpoint \in {"try_on", "update", "delete"} /\ ~resp.existed) =>
        resp.status = 404

\* C30, as claimed: two uploads that fell back to MODEL_DIR have their
\* images under different names, and each one's file holds what it
\* uploaded.
CexC30 ==
    up # <<>> =>
        \A r1, r2 \in Uploads :
            (/\ up[r1].at = "done"
             /\ up[r2].at = "done"
             /\ r1 # r2
             /\ up[r1].image_url # <<>>
             /\ up[r2].image_url # <<>>
             /\ ~StartsWithHttp(up[r1].image_url)
             /\ ~StartsWithHttp(up[r2].image_url)) =>
                /\ up[r1].image_url # up[r2].image_url
                /\ \E f \in DOMAIN model_dir :
                      LocalUrl(f) = up[r1].image_url /\ model_dir[f] = r1

====
